---------------------------- MODULE Spec2Model ----------------------------
(***************************************************************************)
(* Model of the move-decision core of chess-online:                        *)
(*   - the local engine of src/services/ai/aiService.ts (evaluatePosition,  *)
(*     minimax, findBestMove),                                              *)
(*   - the remote path: geminiBackendService.getBestMove, the relay        *)
(*     handler of lambda/geminiHandler.mjs (both its revisions: the one    *)
(*     that checks the move format and the one that checks legality),      *)
(*   - GeminiService.getBestMove with its retry counter,                    *)
(*   - the redux game slice and the AI middleware.                          *)
(* chess.js (the rules oracle) is a library outside the repository: it is  *)
(* represented by a finite table of positions, each with its side to move, *)
(* its board, its check / draw-rule flags and its ordered legal moves.     *)
(***************************************************************************)
EXTENDS Integers, Sequences, FiniteSets, TLC

(***************************************************************************)
(* Characters and response texts.  A text is a sequence of one-character   *)
(* strings, so that trim(), length and substring() are computed.           *)
(***************************************************************************)
Files == {"a", "b", "c", "d", "e", "f", "g", "h"}
Ranks == {"1", "2", "3", "4", "5", "6", "7", "8"}
PromotionLetters == {"q", "r", "b", "n"}
Whitespace == {" ", "\n"}
Undefined == "undefined"

\* String.prototype.trim()
RECURSIVE trimLeft(_)
trimLeft(s) ==
  IF Len(s) > 0 /\ s[1] \in Whitespace THEN trimLeft(Tail(s)) ELSE s

RECURSIVE trimRight(_)
trimRight(s) ==
  IF Len(s) > 0 /\ s[Len(s)] \in Whitespace
  THEN trimRight(SubSeq(s, 1, Len(s) - 1)) ELSE s

trim(s) == trimRight(trimLeft(s))

\* String.prototype.substring(a, b) with 0-based a and exclusive b, clipped
substring(s, a, b) ==
  SubSeq(s, a + 1, IF b > Len(s) THEN Len(s) ELSE b)

(***************************************************************************)
(* The rules oracle (chess.js).  A legal move carries from, to, promotion  *)
(* and the position it leads to.                                           *)
(***************************************************************************)
Mv(tok, next) ==
  [from |-> SubSeq(tok, 1, 2), to |-> SubSeq(tok, 3, 4),
   promotion |-> IF Len(tok) > 4 THEN tok[5] ELSE Undefined, next |-> next]

Pc(type, color, i, j) == [type |-> type, color |-> color, i |-> i, j |-> j]

\* The two kings on their home squares
Kings == << Pc("k", "w", 7, 4), Pc("k", "b", 0, 4) >>

e2e4 == << "e", "2", "e", "4" >>
e2e3 == << "e", "2", "e", "3" >>
d2d4 == << "d", "2", "d", "4" >>
g1f3 == << "g", "1", "f", "3" >>
e7e5 == << "e", "7", "e", "5" >>
d7d5 == << "d", "7", "d", "5" >>
g8f6 == << "g", "8", "f", "6" >>
b8c6 == << "b", "8", "c", "6" >>
e4d5 == << "e", "4", "d", "5" >>
e4e5 == << "e", "4", "e", "5" >>
b1c3 == << "b", "1", "c", "3" >>
d1h5 == << "d", "1", "h", "5" >>
d8d5 == << "d", "8", "d", "5" >>
d8h4 == << "d", "8", "h", "4" >>
e8e7 == << "e", "8", "e", "7" >>
e8d8 == << "e", "8", "d", "8" >>
g7g6 == << "g", "7", "g", "6" >>
f1c4 == << "f", "1", "c", "4" >>
a7a8q == << "a", "7", "a", "8", "q" >>
a7a8n == << "a", "7", "a", "8", "n" >>
a1a2 == << "a", "1", "a", "2" >>
c1c2 == << "c", "1", "c", "2" >>
c1d1 == << "c", "1", "d", "1" >>
h2h1q == << "h", "2", "h", "1", "q" >>
b1b2 == << "b", "1", "b", "2" >>
b1b8 == << "b", "1", "b", "8" >>
h8g8 == << "h", "8", "g", "8" >>
b2g7 == << "b", "2", "g", "7" >>

PositionTable == <<
  \* 1: the starting position of a game, white to move
  [fen |-> 1, turn |-> "w", check |-> FALSE, rule |-> FALSE,
   board |-> Kings \o << Pc("p", "w", 6, 4), Pc("p", "b", 1, 4) >>,
   mv |-> << Mv(e2e4, 2), Mv(d2d4, 3), Mv(g1f3, 4) >>],
  \* 2
  [fen |-> 2, turn |-> "b", check |-> FALSE, rule |-> FALSE,
   board |-> Kings \o << Pc("p", "w", 4, 4), Pc("p", "b", 1, 4) >>,
   mv |-> << Mv(e7e5, 5), Mv(d7d5, 6), Mv(g8f6, 7) >>],
  \* 3
  [fen |-> 3, turn |-> "b", check |-> FALSE, rule |-> FALSE,
   board |-> Kings \o << Pc("p", "w", 4, 3), Pc("p", "b", 1, 4) >>,
   mv |-> << Mv(e7e5, 7), Mv(g8f6, 5) >>],
  \* 4
  [fen |-> 4, turn |-> "b", check |-> FALSE, rule |-> FALSE,
   board |-> Kings \o << Pc("n", "w", 5, 5), Pc("p", "b", 1, 3) >>,
   mv |-> << Mv(d7d5, 6), Mv(g8f6, 5), Mv(b8c6, 7) >>],
  \* 5
  [fen |-> 5, turn |-> "w", check |-> FALSE, rule |-> FALSE,
   board |-> Kings \o << Pc("p", "w", 4, 4), Pc("p", "b", 3, 4) >>,
   mv |-> << Mv(g1f3, 8), Mv(d2d4, 9) >>],
  \* 6
  [fen |-> 6, turn |-> "w", check |-> FALSE, rule |-> FALSE,
   board |-> Kings \o << Pc("p", "w", 4, 4), Pc("p", "b", 3, 3) >>,
   mv |-> << Mv(e4d5, 9), Mv(e4e5, 10) >>],
  \* 7
  [fen |-> 7, turn |-> "w", check |-> FALSE, rule |-> FALSE,
   board |-> Kings \o << Pc("p", "w", 4, 4), Pc("n", "b", 2, 5) >>,
   mv |-> << Mv(e4e5, 10), Mv(b1c3, 8), Mv(d1h5, 11) >>],
  \* 8
  [fen |-> 8, turn |-> "b", check |-> FALSE, rule |-> FALSE,
   board |-> Kings \o << Pc("n", "w", 5, 5), Pc("p", "b", 3, 4) >>,
   mv |-> << Mv(g8f6, 12), Mv(b8c6, 13) >>],
  \* 9
  [fen |-> 9, turn |-> "b", check |-> FALSE, rule |-> FALSE,
   board |-> Kings \o << Pc("p", "w", 3, 3), Pc("q", "b", 0, 3), Pc("q", "w", 7, 3) >>,
   mv |-> << Mv(d8d5, 12), Mv(g8f6, 13) >>],
  \* 10: black is in check; d8h4 answers the check and checkmates white,
  \*     e8d8 answers it and stalemates white
  [fen |-> 10, turn |-> "b", check |-> TRUE, rule |-> FALSE,
   board |-> Kings \o << Pc("p", "w", 3, 4), Pc("q", "b", 0, 3) >>,
   mv |-> << Mv(e8e7, 13), Mv(d8h4, 14), Mv(e8d8, 15) >>],
  \* 11: black is in check and has exactly one legal move
  [fen |-> 11, turn |-> "b", check |-> TRUE, rule |-> FALSE,
   board |-> Kings \o << Pc("q", "w", 3, 7), Pc("p", "b", 1, 6) >>,
   mv |-> << Mv(g7g6, 12) >>],
  \* 12: d1h5 checkmates black
  [fen |-> 12, turn |-> "w", check |-> FALSE, rule |-> FALSE,
   board |-> Kings \o << Pc("q", "w", 7, 3), Pc("b", "w", 7, 5), Pc("n", "b", 2, 5) >>,
   mv |-> << Mv(f1c4, 16), Mv(d1h5, 17) >>],
  \* 13: a white pawn promotes
  [fen |-> 13, turn |-> "w", check |-> FALSE, rule |-> FALSE,
   board |-> Kings \o << Pc("p", "w", 1, 0), Pc("r", "b", 0, 7) >>,
   mv |-> << Mv(a7a8q, 16), Mv(a7a8n, 18), Mv(e2e4, 20) >>],
  \* 14: white is checkmated
  [fen |-> 14, turn |-> "w", check |-> TRUE, rule |-> FALSE,
   board |-> Kings \o << Pc("q", "b", 4, 7) >>,
   mv |-> << >>],
  \* 15: white is stalemated
  [fen |-> 15, turn |-> "w", check |-> FALSE, rule |-> FALSE,
   board |-> Kings \o << Pc("q", "b", 5, 3) >>,
   mv |-> << >>],
  \* 16
  [fen |-> 16, turn |-> "b", check |-> FALSE, rule |-> FALSE,
   board |-> Kings \o << Pc("b", "w", 4, 2), Pc("p", "b", 6, 7) >>,
   mv |-> << Mv(e8e7, 19), Mv(e8d8, 15), Mv(h2h1q, 14) >>],
  \* 17: black is checkmated
  [fen |-> 17, turn |-> "b", check |-> TRUE, rule |-> FALSE,
   board |-> Kings \o << Pc("q", "w", 3, 7) >>,
   mv |-> << >>],
  \* 18: black is stalemated
  [fen |-> 18, turn |-> "b", check |-> FALSE, rule |-> FALSE,
   board |-> Kings \o << Pc("n", "w", 0, 0) >>,
   mv |-> << >>],
  \* 19: drawn by insufficient material, white has exactly one legal move
  [fen |-> 19, turn |-> "w", check |-> FALSE, rule |-> TRUE,
   board |-> << Pc("k", "w", 7, 0), Pc("k", "b", 7, 2) >>,
   mv |-> << Mv(a1a2, 20) >>],
  \* 20: drawn by insufficient material, black to move
  [fen |-> 20, turn |-> "b", check |-> FALSE, rule |-> TRUE,
   board |-> << Pc("k", "w", 6, 0), Pc("k", "b", 7, 2) >>,
   mv |-> << Mv(c1c2, 19), Mv(c1d1, 19) >>],
  \* 21: 7k/8/6K1/8/8/8/8/1Q6 w: b1b8 checkmates at once; b1b2 gives check,
  \*     leaves black one reply and checkmates on the next move.  The oracle
  \*     lists b1b2 first (the squares of a ray in the order they are reached)
  [fen |-> 21, turn |-> "w", check |-> FALSE, rule |-> FALSE,
   board |-> << Pc("k", "w", 2, 6), Pc("k", "b", 0, 7), Pc("q", "w", 7, 1) >>,
   mv |-> << Mv(b1b2, 22), Mv(b1b8, 25) >>],
  \* 22: black is in check and has exactly one legal move
  [fen |-> 22, turn |-> "b", check |-> TRUE, rule |-> FALSE,
   board |-> << Pc("k", "w", 2, 6), Pc("k", "b", 0, 7), Pc("q", "w", 6, 1) >>,
   mv |-> << Mv(h8g8, 23) >>],
  \* 23: b2g7 checkmates black
  [fen |-> 23, turn |-> "w", check |-> FALSE, rule |-> FALSE,
   board |-> << Pc("k", "w", 2, 6), Pc("k", "b", 0, 6), Pc("q", "w", 6, 1) >>,
   mv |-> << Mv(b2g7, 24) >>],
  \* 24: black is checkmated
  [fen |-> 24, turn |-> "b", check |-> TRUE, rule |-> FALSE,
   board |-> << Pc("k", "w", 2, 6), Pc("k", "b", 0, 6), Pc("q", "w", 1, 6) >>,
   mv |-> << >>],
  \* 25: black is checkmated
  [fen |-> 25, turn |-> "b", check |-> TRUE, rule |-> FALSE,
   board |-> << Pc("k", "w", 2, 6), Pc("k", "b", 0, 7), Pc("q", "w", 0, 1) >>,
   mv |-> << >>],
  \* 26: 7k/6Q1/6K1/8/8/8/8/8 b - - 100 80: black is checkmated by the move
  \*     that brought the halfmove clock to 100, so the oracle reports both
  \*     isCheckmate() and isDraw()
  [fen |-> 26, turn |-> "b", check |-> TRUE, rule |-> TRUE,
   board |-> << Pc("k", "w", 2, 6), Pc("k", "b", 0, 7), Pc("q", "w", 1, 6) >>,
   mv |-> << >>],
  \* 27: white chooses between the single and the double step of the e-pawn,
  \*     which the pawn's square table sets 20 apart
  [fen |-> 27, turn |-> "w", check |-> FALSE, rule |-> FALSE,
   board |-> Kings \o << Pc("p", "w", 6, 4), Pc("p", "b", 1, 4) >>,
   mv |-> << Mv(e2e3, 28), Mv(e2e4, 2) >>],
  \* 28
  [fen |-> 28, turn |-> "b", check |-> FALSE, rule |-> FALSE,
   board |-> Kings \o << Pc("p", "w", 5, 4), Pc("p", "b", 1, 4) >>,
   mv |-> << Mv(e7e5, 5), Mv(g8f6, 7) >>]
>>

Positions == 1 .. Len(PositionTable)

\* a position string the oracle does not decode
MalformedFen == Len(PositionTable) + 1

\* new Chess(fen) throwing for a string it does not decode
ChessThrows == [fen |-> << >>, thrown |-> TRUE]

\* new Chess(fen): the oracle loaded with position f
Chess(f) == IF f \in Positions THEN PositionTable[f] ELSE ChessThrows

\* chess.fen()
fenOf(chess) == chess.fen
\* chess.turn()
turnOf(chess) == chess.turn
\* chess.moves({ verbose: true })
movesOf(chess) == chess.mv
\* chess.board()
boardOf(chess) == chess.board
\* chess.isCheck()
isCheck(chess) == chess.check
\* chess.isCheckmate()
isCheckmate(chess) == chess.check /\ Len(chess.mv) = 0
\* chess.isStalemate()
isStalemate(chess) == ~chess.check /\ Len(chess.mv) = 0
\* chess.isDraw(): stalemate, or one of the draw rules
isDraw(chess) == isStalemate(chess) \/ chess.rule
\* an end-of-game test that only knows checkmate
isGameOverOnlyMate(chess) == isCheckmate(chess)

\* chess.isGameOver()
isGameOver(chess) == isCheckmate(chess) \/ isDraw(chess)

NoMove == [from |-> << >>, to |-> << >>, promotion |-> "null"]
MoveOf(m) == [from |-> m.from, to |-> m.to, promotion |-> m.promotion]

\* chess.move({ from, to, promotion }): the index of the first legal move with
\* these squares whose promotion, when it has one, is the one given; 0 when
\* there is none (chess.js throws, or returns null in older versions)
matchesLegal(m, from, to, promotion) ==
  /\ m.from = from
  /\ m.to = to
  /\ (m.promotion = Undefined \/ m.promotion = promotion)

chessMove(chess, from, to, promotion) ==
  LET hits == {k \in 1 .. Len(chess.mv) :
                 matchesLegal(chess.mv[k], from, to, promotion)}
  IN IF hits = {} THEN 0 ELSE CHOOSE k \in hits : \A h \in hits : k <= h

\* the oracle after the k-th legal move has been made
afterMove(chess, k) == Chess(chess.mv[k].next)

(***************************************************************************)
(* Static evaluator: aiService.ts evaluatePosition                          *)
(***************************************************************************)
pieceSquareTables ==
  [p |-> << << 0,  0,  0,  0,  0,  0,  0,  0 >>,
            << 50, 50, 50, 50, 50, 50, 50, 50 >>,
            << 10, 10, 20, 30, 30, 20, 10, 10 >>,
            << 5,  5, 10, 25, 25, 10,  5,  5 >>,
            << 0,  0,  0, 20, 20,  0,  0,  0 >>,
            << 5, -5, -10,  0,  0, -10, -5,  5 >>,
            << 5, 10, 10, -20, -20, 10, 10,  5 >>,
            << 0,  0,  0,  0,  0,  0,  0,  0 >> >>,
   n |-> << << -50, -40, -30, -30, -30, -30, -40, -50 >>,
            << -40, -20,  0,  0,  0,  0, -20, -40 >>,
            << -30,  0, 10, 15, 15, 10,  0, -30 >>,
            << -30,  5, 15, 20, 20, 15,  5, -30 >>,
            << -30,  0, 15, 20, 20, 15,  0, -30 >>,
            << -30,  5, 10, 15, 15, 10,  5, -30 >>,
            << -40, -20,  0,  5,  5,  0, -20, -40 >>,
            << -50, -40, -30, -30, -30, -30, -40, -50 >> >>,
   b |-> << << -20, -10, -10, -10, -10, -10, -10, -20 >>,
            << -10,  0,  0,  0,  0,  0,  0, -10 >>,
            << -10,  0, 10, 10, 10, 10,  0, -10 >>,
            << -10,  5,  5, 10, 10,  5,  5, -10 >>,
            << -10,  0,  5, 10, 10,  5,  0, -10 >>,
            << -10,  5,  5,  5,  5,  5,  5, -10 >>,
            << -10,  0,  5,  0,  0,  5,  0, -10 >>,
            << -20, -10, -10, -10, -10, -10, -10, -20 >> >>,
   r |-> << << 0,  0,  0,  0,  0,  0,  0,  0 >>,
            << 5, 10, 10, 10, 10, 10, 10,  5 >>,
            << -5,  0,  0,  0,  0,  0,  0, -5 >>,
            << -5,  0,  0,  0,  0,  0,  0, -5 >>,
            << -5,  0,  0,  0,  0,  0,  0, -5 >>,
            << -5,  0,  0,  0,  0,  0,  0, -5 >>,
            << -5,  0,  0,  0,  0,  0,  0, -5 >>,
            << 0,  0,  0,  5,  5,  0,  0,  0 >> >>,
   q |-> << << -20, -10, -10, -5, -5, -10, -10, -20 >>,
            << -10,  0,  0,  0,  0,  0,  0, -10 >>,
            << -10,  0,  5,  5,  5,  5,  0, -10 >>,
            << -5,  0,  5,  5,  5,  5,  0, -5 >>,
            << 0,  0,  5,  5,  5,  5,  0, -5 >>,
            << -10,  5,  5,  5,  5,  5,  0, -10 >>,
            << -10,  0,  5,  0,  0,  0,  0, -10 >>,
            << -20, -10, -10, -5, -5, -10, -10, -20 >> >>,
   k |-> << << -30, -40, -40, -50, -50, -40, -40, -30 >>,
            << -30, -40, -40, -50, -50, -40, -40, -30 >>,
            << -30, -40, -40, -50, -50, -40, -40, -30 >>,
            << -30, -40, -40, -50, -50, -40, -40, -30 >>,
            << -20, -30, -30, -40, -40, -30, -30, -20 >>,
            << -10, -20, -20, -20, -20, -20, -20, -10 >>,
            << 20, 20,  0,  0,  0,  0, 20, 20 >>,
            << 20, 30, 10,  0,  0, 10, 30, 20 >> >>]

pieceValues == [p |-> 100, n |-> 320, b |-> 330, r |-> 500, q |-> 900, k |-> 20000]

\* the score returned for a checkmate (sign by the side to move)
MateScore == 10000

\* a term that reads the table unmirrored for black too
pieceScoreUnmirrored(piece) ==
  IF piece.color = "w"
  THEN pieceValues[piece.type] + pieceSquareTables[piece.type][piece.i + 1][piece.j + 1]
  ELSE -(pieceValues[piece.type] + pieceSquareTables[piece.type][piece.i + 1][piece.j + 1])

\* one term of the sum of evaluatePosition: a piece's material value plus its
\* piece-square bonus (rows mirrored for black), signed by its colour
pieceScore(piece) ==
  LET value == pieceValues[piece.type]
      positionValue ==
        pieceSquareTables[piece.type][(IF piece.color = "w" THEN piece.i ELSE 7 - piece.i) + 1][piece.j + 1]
  IN IF piece.color = "w" THEN value + positionValue ELSE -(value + positionValue)

RECURSIVE boardScore(_, _)
boardScore(board, k) ==
  IF k > Len(board) THEN 0 ELSE pieceScore(board[k]) + boardScore(board, k + 1)

\* an evaluator whose mate score favours the side to move
evaluatePositionMateForMover(chess) ==
  IF isCheckmate(chess) THEN (IF turnOf(chess) = "w" THEN MateScore ELSE -MateScore)
  ELSE IF isDraw(chess) THEN 0
  ELSE boardScore(boardOf(chess), 1)

evaluatePosition(chess) ==
  IF isCheckmate(chess) THEN (IF turnOf(chess) = "w" THEN -MateScore ELSE MateScore)
  ELSE IF isDraw(chess) THEN 0
  ELSE boardScore(boardOf(chess), 1)

(***************************************************************************)
(* Search: aiService.ts minimax.  Applying a move is following it to the   *)
(* position it leads to; undoing it is returning to the parent.            *)
(***************************************************************************)
\* Infinity of the source: larger than every score
Infinity == 1000000

MaxOf(a, b) == IF a >= b THEN a ELSE b
MinOf(a, b) == IF a <= b THEN a ELSE b

RECURSIVE minimax(_, _, _, _, _)
RECURSIVE maximizingLoop(_, _, _, _, _, _)
RECURSIVE minimizingLoop(_, _, _, _, _, _)

\* the loop of the maximizing branch from the k-th move on
maximizingLoop(chess, depth, alpha, beta, k, maxEval) ==
  IF k > Len(movesOf(chess)) THEN maxEval
  ELSE LET evaluation == minimax(afterMove(chess, k), depth - 1, alpha, beta, FALSE)
           maxEval2 == MaxOf(maxEval, evaluation)
           alpha2 == MaxOf(alpha, evaluation)
       IN IF beta <= alpha2 THEN maxEval2
          ELSE maximizingLoop(chess, depth, alpha2, beta, k + 1, maxEval2)

\* the loop of the minimizing branch from the k-th move on
minimizingLoop(chess, depth, alpha, beta, k, minEval) ==
  IF k > Len(movesOf(chess)) THEN minEval
  ELSE LET evaluation == minimax(afterMove(chess, k), depth - 1, alpha, beta, TRUE)
           minEval2 == MinOf(minEval, evaluation)
           beta2 == MinOf(beta, evaluation)
       IN IF beta2 <= alpha THEN minEval2
          ELSE minimizingLoop(chess, depth, alpha, beta2, k + 1, minEval2)

minimax(chess, depth, alpha, beta, isMaximizing) ==
  IF depth = 0 \/ isGameOver(chess) THEN evaluatePosition(chess)
  ELSE IF isMaximizing THEN maximizingLoop(chess, depth, alpha, beta, 1, -Infinity)
  ELSE minimizingLoop(chess, depth, alpha, beta, 1, Infinity)

(***************************************************************************)
(* Difficulty policy: aiService.ts difficultySettings.  randomMoveChance   *)
(* is in percent, evaluationNoise is the source's value times ten (the     *)
(* factor the source multiplies it by).                                    *)
(***************************************************************************)
DifficultyOrder == << "beginner", "intermediate", "advanced", "master" >>
Difficulties == {DifficultyOrder[i] : i \in 1 .. Len(DifficultyOrder)}

difficultySettings ==
  [beginner |-> [depth |-> 1, makeRandomMoves |-> TRUE,
                 randomMoveChance |-> 40, evaluationNoise |-> 20],
   intermediate |-> [depth |-> 2, makeRandomMoves |-> TRUE,
                     randomMoveChance |-> 20, evaluationNoise |-> 10],
   advanced |-> [depth |-> 3, makeRandomMoves |-> TRUE,
                 randomMoveChance |-> 10, evaluationNoise |-> 5],
   master |-> [depth |-> 4, makeRandomMoves |-> FALSE,
               randomMoveChance |-> 0, evaluationNoise |-> 0]]

(***************************************************************************)
(* Math.random(): a value k / RandGrain with k in 0 .. RandGrain-1.        *)
(* Scores are compared multiplied by RandGrain, so that score + noise is   *)
(* an integer and the comparison is exact.                                 *)
(***************************************************************************)
RandGrain == 4
Rand == 0 .. (RandGrain - 1)

\* a random branch taken whatever the settings say
randomBranchAlways(d, r1) == TRUE

\* Math.random() < settings.randomMoveChance
randomBranchTaken(d, r1) ==
  /\ difficultySettings[d].makeRandomMoves
  /\ r1 * 100 < difficultySettings[d].randomMoveChance * RandGrain

\* Math.floor(Math.random() * moves.length), as a 1-based index
randomIndex(chess, r2) == ((r2 * Len(movesOf(chess))) \div RandGrain) + 1

\* the scoring loop without the search: the static evaluation of the child
searchScoreShallow(chess, d, k) ==
  RandGrain * evaluatePosition(afterMove(chess, k))

\* RandGrain times the search of a position reached by a move: depth - 1, the
\* full window, maximizing when white is to move in it
searchAfterMove(chess, d) ==
  RandGrain * minimax(chess, difficultySettings[d].depth - 1,
                      -Infinity, Infinity, turnOf(chess) = "w")

\* RandGrain times the search score of the k-th legal move: the move is made
\* and the resulting position searched
searchScore(chess, d, k) == searchAfterMove(afterMove(chess, k), d)

\* the search scores of the first k moves, in move order
RECURSIVE searchScores(_, _, _)
searchScores(chess, d, k) ==
  IF k = 0 THEN << >>
  ELSE Append(searchScores(chess, d, k - 1), searchScore(chess, d, k))

\* the search scores of a position for the first i difficulties
RECURSIVE searchScoresRow(_, _)
searchScoresRow(chess, i) ==
  IF i = 0 THEN << >>
  ELSE searchScoresRow(chess, i - 1) @@
       (DifficultyOrder[i] :> searchScores(chess, DifficultyOrder[i], Len(movesOf(chess))))

RECURSIVE searchScoresUpTo(_)
searchScoresUpTo(p) ==
  IF p = 0 THEN << >>
  ELSE Append(searchScoresUpTo(p - 1), searchScoresRow(Chess(p), Len(DifficultyOrder)))

\* searchScore, computed once for every position, difficulty and move
SearchScoreTable == searchScoresUpTo(Len(PositionTable))

\* a perturbation three times as wide as the settings say
noiseOfThreefold(d, r) == 3 * (2 * r - RandGrain) * difficultySettings[d].evaluationNoise

\* RandGrain times (Math.random() * 2 - 1) * settings.evaluationNoise * 10
noiseOf(d, r) == (2 * r - RandGrain) * difficultySettings[d].evaluationNoise

\* the comparison of the scoring loop with its two directions exchanged
improvesFlipped(turn, score, bestScore) ==
  \/ (turn = "w" /\ score < bestScore)
  \/ (turn = "b" /\ score > bestScore)

\* the comparison of the scoring loop without its branch for black
improvesOnlyWhite(turn, score, bestScore) ==
  turn = "w" /\ score > bestScore

\* the comparison of the scoring loop made to replace bestMove on an equal score
improvesOrEqual(turn, score, bestScore) ==
  \/ (turn = "w" /\ score >= bestScore)
  \/ (turn = "b" /\ score <= bestScore)

\* score > bestScore for white, score < bestScore for black
improves(turn, score, bestScore) ==
  \/ (turn = "w" /\ score > bestScore)
  \/ (turn = "b" /\ score < bestScore)

\* the scoring loop of findBestMove from the k-th move on: best is the index
\* of bestMove (0 for null)
RECURSIVE scoringLoop(_, _, _, _, _, _)
scoringLoop(chess, d, nz, k, best, bestScore) ==
  IF k > Len(movesOf(chess)) THEN best
  ELSE LET score == SearchScoreTable[fenOf(chess)][d][k] + noiseOf(d, nz[k])
       IN IF improves(turnOf(chess), score, bestScore)
          THEN scoringLoop(chess, d, nz, k + 1, k, score)
          ELSE scoringLoop(chess, d, nz, k + 1, best, bestScore)

\* The local implementation of findBestMove (aiService.ts 264-323) for the
\* draws r1 (random-move draw), r2 (random index) and nz (one noise draw per
\* legal move)
findBestMoveLocal(chess, d, r1, r2, nz) ==
  IF isGameOver(chess) THEN NoMove
  ELSE IF randomBranchTaken(d, r1) THEN MoveOf(movesOf(chess)[randomIndex(chess, r2)])
  ELSE LET best == scoringLoop(chess, d, nz, 1, 0,
                     IF turnOf(chess) = "w" THEN -(RandGrain * Infinity)
                                            ELSE RandGrain * Infinity)
       IN IF best # 0 THEN MoveOf(movesOf(chess)[best]) ELSE NoMove

\* the noise draws of one call: one per legal move
NoiseDraws(chess) == [1 .. Len(movesOf(chess)) -> Rand]
NoNoise(chess) == [k \in 1 .. Len(movesOf(chess)) |-> 0]

\* the outcomes of the draws of one call (the random branch does not draw
\* noise, the scored branch does not draw an index)
Draws(chess, d) ==
  {[r1 |-> r1, r2 |-> r2, nz |-> NoNoise(chess)] :
     r1 \in {r \in Rand : randomBranchTaken(d, r)}, r2 \in Rand}
  \cup {[r1 |-> r1, r2 |-> 0, nz |-> nz] :
     r1 \in {r \in Rand : ~randomBranchTaken(d, r)}, nz \in NoiseDraws(chess)}

\* every result the local implementation can return for a position and a
\* difficulty, over all outcomes of its draws
LocalResults(chess, d) ==
  {findBestMoveLocal(chess, d, w.r1, w.r2, w.nz) : w \in Draws(chess, d)}

\* the results of a position for the first i difficulties
RECURSIVE localResultsRow(_, _)
localResultsRow(chess, i) ==
  IF i = 0 THEN << >>
  ELSE localResultsRow(chess, i - 1) @@
       (DifficultyOrder[i] :> {m : m \in LocalResults(chess, DifficultyOrder[i])})

RECURSIVE localResultsUpTo(_)
localResultsUpTo(p) ==
  IF p = 0 THEN << >>
  ELSE Append(localResultsUpTo(p - 1), localResultsRow(Chess(p), Len(DifficultyOrder)))

\* LocalResults, computed once for every position and difficulty
LocalResultsTable == localResultsUpTo(Len(PositionTable))

(***************************************************************************)
(* What the text-generation API can answer to one call of callGeminiAPI:   *)
(* a text, or a failure (non-2xx status, no candidates, network error).    *)
(***************************************************************************)
UpstreamError == << "#", "e", "r", "r", "o", "r" >>

UpstreamTexts ==
  { e7e5, g8f6, d8h4, e8d8, a7a8q, e2e4,
    << " " >> \o g7g6 \o << "\n" >>,
    e7e5 \o << " ", "!" >>,
    << "a", "7", "a", "8", "Q" >>,
    << "N", "f", "6" >>,
    << "N", "x", "f", "3", "+" >>,
    << >> }

UpstreamOutcomes == UpstreamTexts \cup {UpstreamError}

(***************************************************************************)
(* The relay: lambda/geminiHandler.mjs                                      *)
(***************************************************************************)
isValidSquare(square) ==
  Len(square) = 2 /\ square[1] \in Files /\ square[2] \in Ranks

\* a format check that only looks at the length
validateMoveFormatLengthOnly(moveText) ==
  ~(Len(moveText) < 4 \/ Len(moveText) > 5)

\* validateMoveFormat of the handler revision at lines 636-673
validateMoveFormat(moveText) ==
  /\ ~(Len(moveText) < 4 \/ Len(moveText) > 5)
  /\ isValidSquare(substring(moveText, 0, 2))
  /\ isValidSquare(substring(moveText, 2, 4))
  /\ (Len(moveText) > 4 =>
        moveText[5] \in PromotionLetters \cup {"Q", "R", "B", "N"})

\* the test validateMove makes after the move when the side to move was in
\* check: the game must still be going on
rejectedAfterCheck(chess, next) ==
  isCheck(chess) /\ (isCheckmate(next) \/ isDraw(next))

\* validateMove of the handler revision at lines 991-1033
validateMove(chess, moveText) ==
  /\ chess # ChessThrows
  /\ ~(Len(moveText) < 4)
  /\ LET from == substring(moveText, 0, 2)
         to == substring(moveText, 2, 4)
         promotion == IF Len(moveText) > 4 THEN moveText[5] ELSE Undefined
         k == chessMove(chess, from, to, promotion)
     IN /\ k # 0
        /\ ~rejectedAfterCheck(chess, afterMove(chess, k))

\* the validation of the deployed handler revision
relayAccepts(rev, chess, moveText) ==
  IF rev = "legal" THEN validateMove(chess, moveText) ELSE validateMoveFormat(moveText)

\* a retry that sends its request twice
twoMoreRequests(n) == n + 2

\* a retry: one more call of callGeminiAPI (handler) or makeRequest
\* (GeminiService), made once the previous one has been awaited
oneMoreRequest(n) == n + 1

NoHttp == [status |-> 0, success |-> FALSE, content |-> << >>]
HttpOk(content) == [status |-> 200, success |-> TRUE, content |-> content]
HttpError(status) == [status |-> status, success |-> FALSE, content |-> << >>]
\* the answer to OPTIONS: its body is a JSON string, there is no success member
HttpPreflight == [status |-> 200, success |-> FALSE, content |-> << >>]

\* a header, an environment variable or a body member that is not there
Missing == << Undefined >>

\* origins are texts; "h" stands for 'http://code-server.home:3000' and
\* "/g" for its suffix '/game', "x" for any other origin
CodeServer == << "h" >>
CodeServerGame == << "h", "/", "g" >>
OtherOrigin == << "x" >>
DefaultOrigins == << CodeServer, CodeServerGame >>

\* String.prototype.split(','): the pieces between the commas, empty pieces
\* included; piece is the piece being read at index i
RECURSIVE splitFrom(_, _, _)
splitFrom(text, i, piece) ==
  IF i > Len(text) THEN << piece >>
  ELSE IF text[i] = "," THEN << piece >> \o splitFrom(text, i + 1, << >>)
  ELSE splitFrom(text, i + 1, Append(piece, text[i]))

split(text) == splitFrom(text, 1, << >>)

\* process.env.ALLOWED_ORIGINS ? process.env.ALLOWED_ORIGINS.split(',') : [...]
\* (an unset variable and the empty text are both falsy)
ALLOWED_ORIGINS(env) ==
  IF env = Missing \/ env = << >> THEN DefaultOrigins ELSE split(env)

\* Array.prototype.includes
includes(list, x) == \E i \in 1 .. Len(list) : list[i] = x

\* a || b on header values: undefined and '' are falsy
truthy(t) == t # Missing /\ t # << >>

\* event.headers?.origin || event.headers?.Origin || ''
originOf(ev) ==
  IF truthy(ev.headers.origin) THEN ev.headers.origin
  ELSE IF truthy(ev.headers.Origin) THEN ev.headers.Origin
  ELSE << >>

\* ALLOWED_ORIGINS.includes(origin)
originAllowed(list, origin) == includes(list, origin)

\* event.body: text that JSON.parse rejects, or an object with its members
InvalidBody == [valid |-> FALSE, requestType |-> "none", fen |-> 0]
MoveBody(f) == [valid |-> TRUE, requestType |-> "move", fen |-> f]
ChatBody == [valid |-> TRUE, requestType |-> "chat", fen |-> 0]

NoEvent ==
  [httpMethod |-> "none", headers |-> [origin |-> Missing, Origin |-> Missing],
   body |-> InvalidBody]

\* the request the browser sends for sendGeminiRequest's fetch
FrontendEvent(f) ==
  [httpMethod |-> "POST", headers |-> [origin |-> CodeServer, Origin |-> Missing],
   body |-> MoveBody(f)]

(***************************************************************************)
(* The client: geminiBackendService.ts getBestMove, lines 143-165          *)
(***************************************************************************)
Thrown == [from |-> << >>, to |-> << >>, promotion |-> "error"]

\* sendGeminiRequest throws unless response.ok; getBestMove throws unless
\* success, and unless the trimmed content has at least 4 characters
getBestMoveParse(data) ==
  IF ~(data.status >= 200 /\ data.status < 300) THEN Thrown
  ELSE IF ~data.success THEN Thrown
  ELSE LET moveText == trim(data.content)
       IN IF Len(moveText) >= 4
          THEN [from |-> substring(moveText, 0, 2),
                to |-> substring(moveText, 2, 4),
                promotion |-> IF Len(moveText) > 4 THEN moveText[5] ELSE Undefined]
          ELSE Thrown

(***************************************************************************)
(* State                                                                   *)
(***************************************************************************)
VARIABLES
  useGeminiAPI,   \* aiService.ts: the module-level flag
  pc,             \* findBestMove: "idle", "awaitRelay" or "done"
  fen,            \* findBestMove: the position argument (0 before the call)
  difficulty,     \* findBestMove: the difficulty argument
  adapter,        \* the promise of geminiBackendService.getBestMove: "none",
                  \* "pending", "fulfilled", "networkError", "responseError"
  result,         \* findBestMove: the value the promise resolved with
  path,           \* which branch produced result: "none", "remote", "local"
  relayRev,       \* which handler revision is deployed: "format" or "legal"
  relayPc,        \* handler: "idle", "request", "first", "retry", "responded"
  upstreamCalls,  \* handler: calls of callGeminiAPI made for the request
  firstText,      \* handler: the trimmed first response (moveText)
  feedback,       \* handler: the token the retry prompt names as invalid
  retryText,      \* handler: the trimmed retry response (retryMoveText)
  http,           \* the handler's response, as received by fetch
  gsPc,           \* GeminiService.getBestMove: "idle", "awaiting", "returned", "thrown"
  gsFen,          \* GeminiService.getBestMove: the fen argument
  retryCount,     \* GeminiService.getBestMove: the retryCount argument
  requests,       \* GeminiService: calls of makeRequest made for the decision
  gsMove,         \* GeminiService.getBestMove: the move returned
  game,           \* the store's game slice
  pending,        \* aiMiddleware: the timers and computations not yet settled
  allowedOrigins, \* handler: ALLOWED_ORIGINS, as read from the environment
  event,          \* handler: the request it was invoked with
  probe,          \* a direct call of evaluatePosition or minimax and its outcome
  upstreamSettled, \* handler: calls of callGeminiAPI that have resolved or rejected
  responses,      \* GeminiService: calls of makeRequest that have resolved or rejected
  chatCall        \* getChatResponse: its arguments and the prompt it built

callVars == << pc, fen, difficulty, adapter, result, path >>
relayVars ==
  << relayPc, upstreamCalls, upstreamSettled, firstText, feedback, retryText, http, event >>
geminiVars == << gsPc, gsFen, retryCount, requests, responses, gsMove >>
gameVars == << game, pending >>
searchVars == << probe, chatCall >>

vars ==
  << useGeminiAPI, callVars, relayRev, allowedOrigins, relayVars, geminiVars,
     gameVars, searchVars >>

NoText == << "-" >>

\* getChatResponse has not been called
NoChat == [op |-> "none", message |-> << >>, chatHistory |-> << >>, prompt |-> << >>]

\* no direct call has been made
NoProbe ==
  [op |-> "none", fen |-> 0, depth |-> 0, isMaximizing |-> FALSE, alpha |-> 0, beta |-> 0,
   value |-> 0, again |-> 0, cuts |-> 0, chess |-> << >>]

\* the game slice's initialState (gameSlice.ts); history is kept as the
\* number of notations it holds: the reducers append one or empty it, and
\* nothing reads what they are
initialState ==
  [fen |-> 1, history |-> 0, isCheck |-> FALSE, isCheckmate |-> FALSE,
   isDraw |-> FALSE, turn |-> "w", gameType |-> "vs-computer",
   blackPlayer |-> Undefined, aiDifficulty |-> "beginner", status |-> "not-started"]

InitCall ==
  /\ useGeminiAPI = FALSE
  /\ pc = "idle"
  /\ fen = 0
  /\ difficulty = "intermediate"
  /\ adapter = "none"
  /\ result = NoMove
  /\ path = "none"

InitRelay ==
  /\ relayPc = "idle"
  /\ upstreamCalls = 0
  /\ upstreamSettled = 0
  /\ firstText = NoText
  /\ feedback = NoText
  /\ retryText = NoText
  /\ http = NoHttp
  /\ event = NoEvent

InitGemini ==
  /\ gsPc = "idle"
  /\ gsFen = 0
  /\ retryCount = 0
  /\ requests = 0
  /\ responses = 0
  /\ gsMove = NoMove

InitGame ==
  /\ game = initialState
  /\ pending = << >>

InitSearch == probe = NoProbe /\ chatCall = NoChat

Init ==
  /\ InitCall
  /\ relayRev \in {"format", "legal"}
  /\ allowedOrigins = ALLOWED_ORIGINS(Missing)
  /\ InitRelay
  /\ InitGemini
  /\ InitGame
  /\ InitSearch

(***************************************************************************)
(* The decision: aiService.ts findBestMove with the client and the relay   *)
(***************************************************************************)
\* aiService.ts setUseGeminiAPI
setUseGeminiAPI(enable) ==
  /\ useGeminiAPI' = enable
  /\ UNCHANGED << callVars, relayRev, allowedOrigins, relayVars, geminiVars, gameVars, searchVars >>

\* findBestMove with the flag off: the local implementation runs to its end
FindBestMoveLocalCall(f, d) ==
  /\ pc = "idle"
  /\ ~useGeminiAPI
  /\ fen' = f
  /\ difficulty' = d
  /\ result' \in LocalResultsTable[f][d]
  /\ path' = "local"
  /\ pc' = "done"
  /\ UNCHANGED << useGeminiAPI, adapter, relayRev, allowedOrigins, relayVars, geminiVars, gameVars, searchVars >>

\* findBestMove with the flag on: getBestMove builds the request and
\* sendGeminiRequest posts it to the relay; findBestMove awaits
FindBestMoveRemoteCall(f, d) ==
  /\ pc = "idle"
  /\ useGeminiAPI
  /\ fen' = f
  /\ difficulty' = d
  /\ pc' = "awaitRelay"
  /\ adapter' = "pending"
  /\ relayPc' = "request"
  /\ event' = FrontendEvent(f)
  /\ UNCHANGED << useGeminiAPI, result, path, relayRev, allowedOrigins, upstreamCalls,
                  upstreamSettled, firstText, feedback, retryText, http, geminiVars, gameVars, searchVars >>

\* handler, from its entry to its first await or return: OPTIONS is answered
\* at once, a POST from a disallowed origin gets 403, a POST whose body does
\* not parse gets 400, any other POST calls the text-generation API with the
\* prompt and awaits; any other method gets 405
HandlerStart ==
  /\ relayPc = "request"
  /\ IF event.httpMethod = "OPTIONS"
     THEN /\ http' = HttpPreflight
          /\ relayPc' = "responded"
          /\ UNCHANGED upstreamCalls
     ELSE IF event.httpMethod = "POST"
     THEN IF ~originAllowed(allowedOrigins, originOf(event))
          THEN /\ http' = HttpError(403)
               /\ relayPc' = "responded"
               /\ UNCHANGED upstreamCalls
          ELSE IF ~event.body.valid
          THEN /\ http' = HttpError(400)
               /\ relayPc' = "responded"
               /\ UNCHANGED upstreamCalls
          ELSE /\ relayPc' = "first"
               /\ upstreamCalls' = upstreamCalls + 1
               /\ UNCHANGED http
     ELSE /\ http' = HttpError(405)
          /\ relayPc' = "responded"
          /\ UNCHANGED upstreamCalls
  /\ UNCHANGED << useGeminiAPI, callVars, relayRev, allowedOrigins, upstreamSettled,
                  firstText, feedback, retryText, event, geminiVars, gameVars, searchVars >>

\* handler: the first call of callGeminiAPI settles with out
HandlerFirstResponse(out) ==
  /\ relayPc = "first"
  /\ upstreamSettled' = upstreamSettled + 1
  /\ IF out = UpstreamError
     THEN /\ http' = HttpError(500)
          /\ relayPc' = "responded"
          /\ UNCHANGED << upstreamCalls, firstText, feedback >>
     ELSE IF event.body.requestType # "move"
     THEN /\ http' = HttpOk(out)
          /\ relayPc' = "responded"
          /\ UNCHANGED << upstreamCalls, firstText, feedback >>
     ELSE /\ firstText' = trim(out)
          /\ IF relayAccepts(relayRev, Chess(event.body.fen), trim(out))
             THEN /\ http' = HttpOk(out)
                  /\ relayPc' = "responded"
                  /\ UNCHANGED << upstreamCalls, feedback >>
             ELSE /\ feedback' = trim(out)
                  /\ upstreamCalls' = oneMoreRequest(upstreamCalls)
                  /\ relayPc' = "retry"
                  /\ http' = http
  /\ UNCHANGED << useGeminiAPI, callVars, relayRev, allowedOrigins, retryText, event,
                  geminiVars, gameVars, searchVars >>

\* handler: the retry call of callGeminiAPI settles with out
HandlerRetryResponse(out) ==
  /\ relayPc = "retry"
  /\ upstreamSettled' = upstreamSettled + 1
  /\ relayPc' = "responded"
  /\ IF out = UpstreamError
     THEN /\ http' = HttpError(500)
          /\ retryText' = retryText
     ELSE /\ retryText' = trim(out)
          /\ http' = IF relayAccepts(relayRev, Chess(event.body.fen), trim(out))
                     THEN HttpOk(trim(out)) ELSE HttpError(400)
  /\ UNCHANGED << useGeminiAPI, callVars, relayRev, allowedOrigins, upstreamCalls, firstText,
                  feedback, event, geminiVars, gameVars, searchVars >>

\* a findBestMove whose catch block rethrows instead of falling through
findBestMoveResumeRethrow(move) ==
  /\ result' = move
  /\ path' = IF move # Thrown THEN "remote" ELSE "rejected"

\* a findBestMove that reads the flag again after the await
findBestMoveResumeRereads(move) ==
  IF move # Thrown /\ useGeminiAPI
  THEN /\ result' = move
       /\ path' = "remote"
  ELSE /\ result' \in LocalResultsTable[fen][difficulty]
       /\ path' = "local"

\* what findBestMove does once getBestMove has settled with move (the remote
\* move, or Thrown): return the remote move as it is, or fall through to the
\* local implementation
findBestMoveResume(move) ==
  IF move # Thrown
  THEN /\ result' = move
       /\ path' = "remote"
  ELSE IF fen \in Positions
  THEN /\ result' \in LocalResultsTable[fen][difficulty]
       /\ path' = "local"
  ELSE /\ result' = Thrown
       /\ path' = "rejected"

\* the relay's response arrives: getBestMove parses it, findBestMove resumes
ClientReceive ==
  /\ pc = "awaitRelay"
  /\ relayPc = "responded"
  /\ adapter' = IF getBestMoveParse(http) # Thrown THEN "fulfilled" ELSE "responseError"
  /\ findBestMoveResume(getBestMoveParse(http))
  /\ pc' = "done"
  /\ UNCHANGED << useGeminiAPI, fen, difficulty, relayRev, allowedOrigins, relayVars, geminiVars,
                  gameVars, searchVars >>

\* fetch rejects (network error): sendGeminiRequest and getBestMove rethrow,
\* findBestMove catches
TransportFailure ==
  /\ pc = "awaitRelay"
  /\ relayPc # "responded"
  /\ adapter' = "networkError"
  /\ findBestMoveResume(Thrown)
  /\ pc' = "done"
  /\ UNCHANGED << useGeminiAPI, fen, difficulty, relayRev, allowedOrigins, relayVars, geminiVars,
                  gameVars, searchVars >>

Next ==
  \/ \E enable \in BOOLEAN : setUseGeminiAPI(enable)
  \/ \E f \in Positions, d \in Difficulties : FindBestMoveLocalCall(f, d)
  \/ \E f \in Positions, d \in Difficulties : FindBestMoveRemoteCall(f, d)
  \/ HandlerStart
  \/ \E out \in UpstreamOutcomes : HandlerFirstResponse(out)
  \/ \E out \in UpstreamOutcomes : HandlerRetryResponse(out)
  \/ ClientReceive
  \/ TransportFailure

Spec == Init /\ [][Next]_vars

\* the deployment whose handler validates with validateMove
InitLegalRelay == Init /\ relayRev = "legal"

SpecLegalRelay == InitLegalRelay /\ [][Next]_vars

(***************************************************************************)
(* Properties of the decision                                               *)
(***************************************************************************)
\* the move a text names, read as the handler and the client read it
namedMove(t) ==
  [from |-> substring(t, 0, 2), to |-> substring(t, 2, 4),
   promotion |-> IF Len(t) > 4 THEN t[5] ELSE Undefined]

\* m is accepted by the Rules Oracle as a move of position p
isLegalMove(chess, m) == chessMove(chess, m.from, m.to, m.promotion) # 0

\* t has at least four characters and names a legal move of p
namesLegalMove(chess, t) == Len(t) >= 4 /\ isLegalMove(chess, namedMove(t))

\* t holds a square-to-square token somewhere
containsMoveToken(t) ==
  \E i \in 1 .. (Len(t) - 3) :
    isValidSquare(<< t[i], t[i + 1] >>) /\ isValidSquare(<< t[i + 2], t[i + 3] >>)

\* findBestMove has returned from a call made with the flag off
doneRemoteDisabled == pc = "done" /\ adapter = "none"

\* C1: with the remote flag enabled, a move findBestMove returns from the
\* remote path is a legal move of the position the request was built from.
C1_RemoteMoveIsLegal ==
  (pc = "done" /\ path = "remote") => isLegalMove(Chess(fen), result)

\* C2: when the remote adapter fails (transport error, non-success response,
\* malformed or illegal move after the retry), findBestMove does not reject:
\* it returns what the local search returns for the same position and
\* difficulty.
C2_FailureFallsBackToLocal ==
  (pc = "done" /\ adapter \in {"networkError", "responseError"}) =>
    (path = "local" /\ result \in LocalResultsTable[fen][difficulty])

C2_Witness ==
  /\ pc = "done"
  /\ adapter = "responseError"
  /\ http = HttpError(400)
  /\ path = "local"
  /\ result # NoMove

\* C4: for a position without legal moves findBestMove returns NoMove,
\* whether the flag is on or off and whatever the remote source answers.
C4_NoLegalMovesGivesNoMove ==
  (pc = "done" /\ Len(movesOf(Chess(fen))) = 0) => result = NoMove

\* the handler has read the first response and it names an illegal move
firstNamesIllegal ==
  /\ firstText # NoText
  /\ validateMoveFormat(firstText)
  /\ ~isLegalMove(Chess(fen), namedMove(firstText))

\* C6: an illegal move in the first response is rejected and retried with
\* feedback naming the rejected token; when the retry names a legal move,
\* findBestMove returns the retry's move.
C6_RetryMoveReturned ==
  /\ firstNamesIllegal => (upstreamCalls = 2 /\ feedback = firstText)
  /\ (/\ pc = "done"
      /\ adapter \in {"fulfilled", "responseError"}
      /\ firstNamesIllegal
      /\ retryText # NoText
      /\ namesLegalMove(Chess(fen), retryText))
     => result = namedMove(retryText)

firstMalformed == firstText # NoText /\ ~containsMoveToken(firstText)
retryMalformed == retryText # NoText /\ ~containsMoveToken(retryText)

\* the retry part of C7: a first response without a move-shaped token gets
\* exactly one retry, carrying the rejected text as feedback; a second such
\* response ends the request with a failure and no further call
oneRetryThenFailure ==
  /\ firstMalformed => (upstreamCalls = 2 /\ feedback = firstText)
  /\ (firstMalformed /\ retryMalformed) =>
       (relayPc = "responded" /\ http = HttpError(400) /\ upstreamCalls = 2)

\* findBestMove has returned after two malformed responses reached the client
doneAfterTwoMalformed ==
  pc = "done" /\ adapter = "responseError" /\ firstMalformed /\ retryMalformed

\* C7 as stated: after the two malformed responses findBestMove returns a
\* legal move produced by the local search.
C7_Original ==
  /\ oneRetryThenFailure
  /\ doneAfterTwoMalformed => (path = "local" /\ isLegalMove(Chess(fen), result))

\* C7, amended: one retry, then failure, and findBestMove returns what the
\* local search returns: a legal move when the game is not over in the
\* position, NoMove when it is.
C7_MalformedTwiceFallsBack ==
  /\ oneRetryThenFailure
  /\ doneAfterTwoMalformed =>
       /\ path = "local"
       /\ result \in LocalResultsTable[fen][difficulty]
       /\ IF isGameOver(Chess(fen)) THEN result = NoMove ELSE isLegalMove(Chess(fen), result)

C7_Witness ==
  /\ doneAfterTwoMalformed
  /\ ~isGameOver(Chess(fen))
  /\ isLegalMove(Chess(fen), result)

\* C8: the handler's validation accepts the first response exactly when it
\* names a legal move of the request's position (accepted: answered without
\* a retry).
C8_ValidationIsLegality ==
  (relayRev = "legal" /\ firstText # NoText) =>
    ((upstreamCalls = 1) <=> namesLegalMove(Chess(fen), firstText))

\* minimax as its definition reads, without the alpha-beta window: the
\* evaluation at depth 0 or at the end of the game, else the largest
\* (maximizing) or smallest (minimizing) value among the children
RECURSIVE plainMinimax(_, _, _)
plainMinimax(chess, depth, isMaximizing) ==
  IF depth = 0 \/ isGameOver(chess) THEN evaluatePosition(chess)
  ELSE LET values == {plainMinimax(afterMove(chess, k), depth - 1, ~isMaximizing) :
                        k \in 1 .. Len(movesOf(chess))}
       IN IF isMaximizing THEN CHOOSE v \in values : \A w \in values : v >= w
          ELSE CHOOSE v \in values : \A w \in values : v <= w

\* the minimax value, at master depth, of a position reached by a move
masterValue(chess) ==
  plainMinimax(chess, difficultySettings["master"].depth - 1, turnOf(chess) = "w")

\* the minimax value of the k-th legal move at master depth
masterScore(chess, k) == masterValue(afterMove(chess, k))

RECURSIVE masterScoresOf(_, _)
masterScoresOf(chess, k) ==
  IF k = 0 THEN << >> ELSE Append(masterScoresOf(chess, k - 1), masterScore(chess, k))

\* the master scores of every move of a position
masterScoresAll(chess) == masterScoresOf(chess, Len(movesOf(chess)))

RECURSIVE masterScoresUpTo(_)
masterScoresUpTo(p) ==
  IF p = 0 THEN << >>
  ELSE Append(masterScoresUpTo(p - 1), masterScoresAll(Chess(p)))

MasterScoreTable == masterScoresUpTo(Len(PositionTable))

\* C9: at master difficulty with remote disabled, the returned move's search
\* score is >= every legal move's when white is to move and <= every legal
\* move's when black is to move.
C9_MasterChoosesMinimaxBest ==
  (doneRemoteDisabled /\ difficulty = "master" /\ result # NoMove) =>
    LET k == chessMove(Chess(fen), result.from, result.to, result.promotion)
    IN /\ k # 0
       /\ \A j \in 1 .. Len(movesOf(Chess(fen))) :
            IF turnOf(Chess(fen)) = "w"
            THEN MasterScoreTable[fen][k] >= MasterScoreTable[fen][j]
            ELSE MasterScoreTable[fen][k] <= MasterScoreTable[fen][j]

\* a master decision among moves of different scores
C9_Witness ==
  /\ doneRemoteDisabled
  /\ difficulty = "master"
  /\ result # NoMove
  /\ \E j \in 1 .. Len(movesOf(Chess(fen))) :
       MasterScoreTable[fen][j] #
         MasterScoreTable[fen][chessMove(Chess(fen), result.from, result.to, result.promotion)]

\* C10 as stated: with remote disabled, a position with exactly one legal
\* move gets that move at every difficulty and for every draw.
C10_Original ==
  (doneRemoteDisabled /\ Len(movesOf(Chess(fen))) = 1) =>
    result = MoveOf(movesOf(Chess(fen))[1])

\* C10, amended: with remote disabled, a position with exactly one legal move
\* in which the game is not over gets that move at every difficulty and for
\* every draw (a position drawn by rule gets NoMove).
C10_ForcedMoveReturned ==
  (doneRemoteDisabled /\ Len(movesOf(Chess(fen))) = 1) =>
    result = IF isGameOver(Chess(fen)) THEN NoMove ELSE MoveOf(movesOf(Chess(fen))[1])

C10_Witness ==
  /\ doneRemoteDisabled
  /\ Len(movesOf(Chess(fen))) = 1
  /\ ~isGameOver(Chess(fen))
  /\ difficulty = "beginner"
  /\ result = MoveOf(movesOf(Chess(fen))[1])

(***************************************************************************)
(* The direct adapter: GeminiService.getBestMove (utils/chessUtils.ts)      *)
(***************************************************************************)
UpperCase == << "A", "B", "C", "D", "E", "F", "G", "H", "M", "N", "O", "P", "Q", "R", "V" >>
LowerCase == << "a", "b", "c", "d", "e", "f", "g", "h", "m", "n", "o", "p", "q", "r", "v" >>

\* String.prototype.toLowerCase, on one character and on a text
charToLowerCase(c) ==
  IF \E i \in 1 .. Len(UpperCase) : UpperCase[i] = c
  THEN LowerCase[CHOOSE i \in 1 .. Len(UpperCase) : UpperCase[i] = c]
  ELSE c

toLowerCase(s) == [i \in 1 .. Len(s) |-> charToLowerCase(s[i])]

\* [a-h][1-8][a-h][1-8] at the 1-based index i of s, with or without the i flag
tokenAt(s, i, ignoreCase) ==
  /\ i >= 1
  /\ i + 3 <= Len(s)
  /\ LET t == IF ignoreCase THEN toLowerCase(s) ELSE s
     IN /\ t[i] \in Files
        /\ t[i + 1] \in Ranks
        /\ t[i + 2] \in Files
        /\ t[i + 3] \in Ranks

\* the group ([a-h][1-8][a-h][1-8][qrbnQRBN]?) matched at index i
groupAt(s, i) ==
  IF i + 4 <= Len(s) /\ s[i + 4] \in PromotionLetters \cup {"Q", "R", "B", "N"}
  THEN SubSeq(s, i, i + 4)
  ELSE SubSeq(s, i, i + 3)

RECURSIVE skipWhitespace(_, _)
skipWhitespace(s, i) ==
  IF i <= Len(s) /\ s[i] \in Whitespace THEN skipWhitespace(s, i + 1) ELSE i

\* /Move:\s*(...)/i matches with "Move:" at index i
labelledAt(s, i) ==
  /\ i + 4 <= Len(s)
  /\ toLowerCase(SubSeq(s, i, i + 4)) = << "m", "o", "v", "e", ":" >>
  /\ tokenAt(s, skipWhitespace(s, i + 5), TRUE)

least(S) == CHOOSE i \in S : \A j \in S : i <= j

\* moveMatch[1] of the two regular expressions, << >> when neither matches
moveMatch(s) ==
  LET labelled == {i \in 1 .. Len(s) : labelledAt(s, i)}
      bare == {i \in 1 .. Len(s) : tokenAt(s, i, FALSE)}
  IN IF labelled # {} THEN groupAt(s, skipWhitespace(s, least(labelled) + 5))
     ELSE IF bare # {} THEN groupAt(s, least(bare))
     ELSE << >>

\* the fallback scan over the 4-character windows of the response
fallbackScan(s) ==
  LET hits == {i \in 1 .. Len(s) : tokenAt(s, i, TRUE)}
  IN IF Len(s) >= 4 /\ hits # {}
     THEN LET i == least(hits)
          IN [from |-> toLowerCase(SubSeq(s, i, i + 1)),
              to |-> toLowerCase(SubSeq(s, i + 2, i + 3)),
              promotion |->
                IF i + 4 <= Len(s) /\ s[i + 4] \in PromotionLetters \cup {"Q", "R", "B", "N"}
                THEN charToLowerCase(s[i + 4]) ELSE Undefined]
     ELSE Thrown

\* the move getBestMove extracts from a response text, Thrown when none
extractMove(responseText) ==
  IF moveMatch(responseText) # << >>
  THEN namedMove(toLowerCase(moveMatch(responseText)))
  ELSE fallbackScan(responseText)

\* const MAX_RETRIES = 3
MAX_RETRIES == 3

\* a retry test that lets one more attempt through
mayRetryInclusive(n) == n <= MAX_RETRIES

\* retryCount < MAX_RETRIES
mayRetry(n) == n < MAX_RETRIES

NoCandidates == << "#", "e", "m", "p", "t", "y" >>

GeminiTexts ==
  { << "M", "o", "v", "e", ":", " " >> \o e7e5,
    g8f6,
    << "E", "7", "E", "5" >>,
    << "a", "7", "a", "8", "Q" >>,
    << "N", "f", "6" >>,
    << "N", "x", "f", "3", "+" >>,
    << >> }

GeminiOutcomes == GeminiTexts \cup {UpstreamError, NoCandidates}

\* getBestMove(fen, difficulty) is called: the prompt is built and makeRequest
\* sends it (difficulty only sets the temperature and a line of the prompt)
GeminiGetBestMove(f) ==
  /\ gsPc = "idle"
  /\ gsFen' = f
  /\ retryCount' = 0
  /\ requests' = requests + 1
  /\ gsPc' = "awaiting"
  /\ UNCHANGED << gsMove, responses >>
  /\ UNCHANGED << useGeminiAPI, callVars, relayRev, allowedOrigins, relayVars, gameVars, searchVars >>

\* makeRequest settles with out: a move is returned, or the call is repeated
\* with retryCount + 1 (one more request), or the error is thrown
GeminiResponse(out) ==
  /\ gsPc = "awaiting"
  /\ responses' = responses + 1
  /\ LET move == IF out \in {UpstreamError, NoCandidates} THEN Thrown
                 ELSE extractMove(trim(out))
     IN IF move # Thrown
        THEN /\ gsMove' = move
             /\ gsPc' = "returned"
             /\ UNCHANGED << retryCount, requests >>
        ELSE IF mayRetry(retryCount)
        THEN /\ retryCount' = retryCount + 1
             /\ requests' = oneMoreRequest(requests)
             /\ UNCHANGED << gsPc, gsMove >>
        ELSE /\ gsPc' = "thrown"
             /\ UNCHANGED << retryCount, requests, gsMove >>
  /\ UNCHANGED << gsFen, useGeminiAPI, callVars, relayRev, allowedOrigins, relayVars, gameVars, searchVars >>

NextGemini ==
  \/ \E f \in Positions : GeminiGetBestMove(f)
  \/ \E out \in GeminiOutcomes : GeminiResponse(out)

\* one Move decision, made either through findBestMove and the relay or
\* through GeminiService
NextAdapters ==
  \/ (gsPc = "idle" /\ Next)
  \/ (pc = "idle" /\ NextGemini)

SpecAdapters == Init /\ [][NextAdapters]_vars

\* C5 as stated: one Move decision sends at most MAX_RETRIES = 3 requests,
\* the first one included.
C5_Original ==
  requests <= MAX_RETRIES /\ upstreamCalls <= MAX_RETRIES

\* C5, amended: GeminiService sends at most MAX_RETRIES + 1 requests (the
\* first attempt and up to MAX_RETRIES retries) and the relay at most two;
\* GeminiService throws only after the last allowed attempt, with no move
\* returned, and a settled decision has stopped sending.
C5_RequestsBounded ==
  /\ requests <= MAX_RETRIES + 1
  /\ upstreamCalls <= 2
  /\ gsPc = "thrown" => (requests = MAX_RETRIES + 1 /\ gsMove = NoMove)
  /\ gsPc \in {"thrown", "returned"} => ~ENABLED NextGemini

C5_Witness ==
  gsPc = "thrown" /\ requests = MAX_RETRIES + 1 /\ retryCount = MAX_RETRIES

(***************************************************************************)
(* The game: the redux game slice (store/gameSlice.ts), the board and the  *)
(* controls that dispatch to it, and the AI middleware                     *)
(***************************************************************************)
FileOrder == << "a", "b", "c", "d", "e", "f", "g", "h" >>
RankOrder == << "1", "2", "3", "4", "5", "6", "7", "8" >>

NoPiece == [type |-> "none", color |-> "none", i |-> -1, j |-> -1]

\* the board row and column of a square (row 0 is rank 8)
rowOf(square) == 8 - (CHOOSE n \in 1 .. 8 : RankOrder[n] = square[2])
colOf(square) == (CHOOSE n \in 1 .. 8 : FileOrder[n] = square[1]) - 1

\* chess.get(square)
chessGet(chess, square) ==
  LET hits == {n \in 1 .. Len(boardOf(chess)) :
                 /\ boardOf(chess)[n].i = rowOf(square)
                 /\ boardOf(chess)[n].j = colOf(square)}
  IN IF hits = {} THEN NoPiece ELSE boardOf(chess)[CHOOSE n \in hits : TRUE]

\* makeMove: isPawnPromotion and movePromotion
isPawnPromotion(piece, to) ==
  /\ piece # NoPiece
  /\ piece.type = "p"
  /\ \/ (piece.color = "w" /\ to[2] = "8")
     \/ (piece.color = "b" /\ to[2] = "1")

\* a movePromotion that promotes to a queen whatever the payload asks for
movePromotionForcesQueen(chess, from, to, promotion) ==
  IF isPawnPromotion(chessGet(chess, from), to) THEN "q" ELSE promotion

movePromotion(chess, from, to, promotion) ==
  IF isPawnPromotion(chessGet(chess, from), to)
  THEN (IF promotion = Undefined THEN "q" ELSE promotion)
  ELSE promotion

\* makeMove once chess.move has made the move: the slice takes the position,
\* one more notation, the flags, the side to move and, at a checkmate or a
\* draw, the status
moveMade(g, chess) ==
  [g EXCEPT !.fen = fenOf(chess),
            !.history = g.history + 1,
            !.isCheck = isCheck(chess),
            !.isCheckmate = isCheckmate(chess),
            !.isDraw = isDraw(chess),
            !.turn = turnOf(chess),
            !.status = IF isCheckmate(chess)
                       THEN (IF turnOf(chess) = "w" THEN "black-won" ELSE "white-won")
                       ELSE IF isDraw(chess) THEN "draw"
                       ELSE g.status]

\* makeMove with k the move chess.move found (0: it threw, the state stays)
makeMoveFound(g, chess, k) ==
  IF k = 0 THEN g ELSE moveMade(g, afterMove(chess, k))

makeMoveOn(g, chess, from, to, promotion) ==
  makeMoveFound(g, chess, chessMove(chess, from, to, movePromotion(chess, from, to, promotion)))

\* the reducer makeMove
makeMove(g, from, to, promotion) == makeMoveOn(g, Chess(g.fen), from, to, promotion)

\* the reducer startNewGame
startNewGame(g, gameType, aiDifficulty, blackPlayer) ==
  [g EXCEPT !.fen = 1, !.history = 0, !.isCheck = FALSE, !.isCheckmate = FALSE,
            !.isDraw = FALSE, !.turn = "w", !.gameType = gameType,
            !.aiDifficulty = aiDifficulty, !.blackPlayer = blackPlayer,
            !.status = "in-progress"]

\* the reducer resignGame
resignGame(g) ==
  [g EXCEPT !.status = IF g.turn = "w" THEN "black-won" ELSE "white-won"]

\* aiMiddleware, after the reducer: when black is the AI and to move in a
\* game in progress, a timer is set that keeps the state it was set in
aiMiddleware(g, timers) ==
  IF /\ g.gameType = "vs-computer"
     /\ g.turn = "b"
     /\ g.blackPlayer = "AI"
     /\ g.status = "in-progress"
  THEN Append(timers, [fen |-> g.fen, aiDifficulty |-> g.aiDifficulty])
  ELSE timers

\* the timers that are set and have not fired: at most MaxPending
MaxPending == 2

GameTypes == {"real-time", "turn-based", "vs-computer"}

\* what a player can drop: the squares of the moves of the position table,
\* with the piece the board reports
DropSquares ==
  UNION {{<< PositionTable[p].mv[k].from, PositionTable[p].mv[k].to >> :
            k \in 1 .. Len(PositionTable[p].mv)} : p \in 1 .. Len(PositionTable)}

DropPieces == {<< "w", "P" >>, << "w", "Q" >>, << "w", "N" >>, << "b", "P" >>}

\* store.dispatch of an action whose reducer gives g: the slice takes g, then
\* the middleware looks at it
Dispatch(g) ==
  /\ Len(aiMiddleware(g, pending)) <= MaxPending
  /\ game' = g
  /\ pending' = aiMiddleware(g, pending)

\* GameControls.tsx handleStartNewGame
handleStartNewGame(selectedGameType, selectedDifficulty) ==
  /\ Dispatch(startNewGame(game, selectedGameType,
                IF selectedGameType = "vs-computer" THEN selectedDifficulty ELSE Undefined,
                IF selectedGameType = "vs-computer" THEN "AI" ELSE Undefined))
  /\ UNCHANGED << useGeminiAPI, callVars, relayRev, allowedOrigins, relayVars, geminiVars, searchVars >>

\* ChessBoard.tsx onDrop
onDrop(sourceSquare, targetSquare, piece) ==
  /\ game.status = "in-progress"
  /\ Dispatch(makeMove(game, sourceSquare, targetSquare,
                IF /\ charToLowerCase(piece[2]) = "p"
                   /\ \/ (piece[1] = "w" /\ targetSquare[2] = "8")
                      \/ (piece[1] = "b" /\ targetSquare[2] = "1")
                THEN charToLowerCase(piece[2]) ELSE Undefined))
  /\ UNCHANGED << useGeminiAPI, callVars, relayRev, allowedOrigins, relayVars, geminiVars, searchVars >>

\* the Resign buttons (shown or enabled while the game is in progress)
ResignClick ==
  /\ game.status = "in-progress"
  /\ Dispatch(resignGame(game))
  /\ UNCHANGED << useGeminiAPI, callVars, relayRev, allowedOrigins, relayVars, geminiVars, searchVars >>

\* the Offer Draw button: the reducer offerDraw leaves the slice as it is
OfferDrawClick ==
  /\ game.status = "in-progress"
  /\ Dispatch(game)
  /\ UNCHANGED << useGeminiAPI, callVars, relayRev, allowedOrigins, relayVars, geminiVars, searchVars >>

\* AIChat.tsx handleSendMessage: addChatMessage is dispatched; the reducer
\* appends to chatHistory and leaves the fields of the game as they are
handleSendMessage ==
  /\ Dispatch(game)
  /\ UNCHANGED << useGeminiAPI, callVars, relayRev, allowedOrigins, relayVars, geminiVars, searchVars >>

\* the oldest timer fires: findBestMove runs (flag off: the local
\* implementation, which does not wait) on the state the timer was set in,
\* and a move that is not null is dispatched
AITimeout ==
  /\ pending # << >>
  /\ ~useGeminiAPI
  /\ \E bestMove \in LocalResultsTable[Head(pending).fen][Head(pending).aiDifficulty] :
       IF bestMove # NoMove
       THEN /\ game' = makeMove(game, bestMove.from, bestMove.to, bestMove.promotion)
            /\ pending' = aiMiddleware(game', Tail(pending))
       ELSE /\ game' = game
            /\ pending' = Tail(pending)
  /\ UNCHANGED << useGeminiAPI, callVars, relayRev, allowedOrigins, relayVars, geminiVars, searchVars >>

NextGame ==
  \/ \E t \in GameTypes, d \in Difficulties : handleStartNewGame(t, d)
  \/ \E sq \in DropSquares, piece \in DropPieces : onDrop(sq[1], sq[2], piece)
  \/ ResignClick
  \/ OfferDrawClick
  \/ handleSendMessage
  \/ AITimeout

SpecGame == Init /\ [][NextGame]_vars

\* the timer that fires was set in a position that is no longer the game's
StaleTimeout ==
  /\ pending # << >>
  /\ Head(pending).fen # game.fen
  /\ AITimeout

\* C3: a move computed by an AI decision for one position is never applied to
\* a different position: when the position has changed since the decision
\* was scheduled, its result is discarded and the game state stays as it is.
C3_StaleDecisionDiscarded == [][StaleTimeout => game' = game]_vars

(***************************************************************************)
(* Properties of the local implementation                                  *)
(***************************************************************************)
\* C11 as stated: with remote disabled, a position with at least one legal
\* move gets a Move and never NoMove, at every difficulty.
C11_Original ==
  (doneRemoteDisabled /\ Len(movesOf(Chess(fen))) > 0) => result # NoMove

\* C11, amended: with remote disabled, a position with at least one legal
\* move in which the game is not over gets a legal Move, at every difficulty
\* (a position drawn by rule gets NoMove although it has legal moves).
C11_MoveReturned ==
  (doneRemoteDisabled /\ Len(movesOf(Chess(fen))) > 0) =>
    IF isGameOver(Chess(fen)) THEN result = NoMove
    ELSE result # NoMove /\ isLegalMove(Chess(fen), result)

C11_Witness ==
  /\ doneRemoteDisabled
  /\ fen = 2
  /\ difficulty = "intermediate"
  /\ result # NoMove

\* the k-th legal move checkmates
deliversMate(chess, k) == k # 0 /\ isCheckmate(afterMove(chess, k))

\* the index of a move among the legal moves of a position (0: not legal)
indexOfMove(chess, m) == chessMove(chess, m.from, m.to, m.promotion)

\* C12: at master difficulty with remote disabled, whenever at least one
\* legal move delivers immediate checkmate, findBestMove returns a move that
\* delivers immediate checkmate.
C12_MasterPlaysMateInOne ==
  (/\ doneRemoteDisabled
   /\ difficulty = "master"
   /\ \E k \in 1 .. Len(movesOf(Chess(fen))) : deliversMate(Chess(fen), k))
  => (result # NoMove /\ deliversMate(Chess(fen), indexOfMove(Chess(fen), result)))

\* a master decision that plays the immediate checkmate
C12_Witness ==
  /\ doneRemoteDisabled
  /\ difficulty = "master"
  /\ result # NoMove
  /\ deliversMate(Chess(fen), indexOfMove(Chess(fen), result))


(***************************************************************************)
(* The relay on its own: any request the gateway can hand to the handler   *)
(***************************************************************************)
\* values of the environment variable ALLOWED_ORIGINS
EnvValues ==
  { Missing, << >>, CodeServer, CodeServer \o << "," >> \o OtherOrigin,
    CodeServer \o << "," >> }

Methods == {"OPTIONS", "POST", "GET"}

HeaderValues == {Missing, << >>, CodeServer, OtherOrigin}

Bodies == {InvalidBody, MoveBody(2), ChatBody}

\* the gateway invokes the handler with a request of its own
GatewayEvent(method, lower, upper, body) ==
  /\ pc = "idle"
  /\ relayPc \in {"idle", "responded"}
  /\ event' = [httpMethod |-> method, headers |-> [origin |-> lower, Origin |-> upper],
               body |-> body]
  /\ relayPc' = "request"
  /\ upstreamCalls' = 0
  /\ upstreamSettled' = 0
  /\ firstText' = NoText
  /\ feedback' = NoText
  /\ retryText' = NoText
  /\ http' = NoHttp
  /\ UNCHANGED << useGeminiAPI, callVars, relayRev, allowedOrigins, geminiVars, gameVars,
                  searchVars >>

NextRelay ==
  \/ \E method \in Methods, lower \in HeaderValues, upper \in HeaderValues, body \in Bodies :
       GatewayEvent(method, lower, upper, body)
  \/ HandlerStart
  \/ \E out \in UpstreamOutcomes : HandlerFirstResponse(out)
  \/ \E out \in UpstreamOutcomes : HandlerRetryResponse(out)

InitRelayAlone ==
  /\ InitCall
  /\ relayRev \in {"format", "legal"}
  /\ \E env \in EnvValues : allowedOrigins = ALLOWED_ORIGINS(env)
  /\ InitRelay
  /\ InitGemini
  /\ InitGame
  /\ InitSearch

SpecRelay == InitRelayAlone /\ [][NextRelay]_vars

\* the Origin header of the request, under either spelling (the first that
\* is not empty); Missing if the request carries none
originHeader(ev) ==
  IF ev.headers.origin = Missing /\ ev.headers.Origin = Missing THEN Missing
  ELSE originOf(ev)

\* the request is a POST whose Origin header is one of ALLOWED_ORIGINS
allowedPost(list, ev) ==
  /\ ev.httpMethod = "POST"
  /\ originHeader(ev) # Missing
  /\ includes(list, originHeader(ev))

\* C13: the handler calls the text-generation API only for a POST whose Origin
\* header is in ALLOWED_ORIGINS; a POST from any other origin, a missing one
\* included, gets 403 with success = false and no upstream call, OPTIONS gets
\* 200 and no upstream call, any other method 405 and no upstream call.
C13_UpstreamOnlyForAllowedPost ==
  /\ upstreamCalls > 0 => allowedPost(allowedOrigins, event)
  /\ (relayPc = "responded" /\ event.httpMethod = "POST"
        /\ ~allowedPost(allowedOrigins, event))
       => (http.status = 403 /\ ~http.success /\ upstreamCalls = 0)
  /\ (relayPc = "responded" /\ event.httpMethod = "OPTIONS")
       => (http.status = 200 /\ upstreamCalls = 0)
  /\ (relayPc = "responded" /\ event.httpMethod \notin {"OPTIONS", "POST"})
       => (http.status = 405 /\ upstreamCalls = 0)

\* a POST without an Origin header has been answered 403
C13_Witness ==
  /\ relayPc = "responded"
  /\ event.httpMethod = "POST"
  /\ originHeader(event) = Missing
  /\ http.status = 403
  /\ upstreamCalls = 0

(***************************************************************************)
(* Progress of the decision                                                *)
(***************************************************************************)
\* The event loop runs findBestMove's continuation once fetch has settled
\* with a response.  Nothing in sendGeminiRequest or findBestMove bounds the
\* wait for the relay (no timer, no abort signal), so no step of the relay or
\* of the network is assumed to happen.
SpecProgress == Init /\ [][Next]_vars /\ WF_vars(ClientReceive)

\* C14: every findBestMove call eventually completes with a Move or NoMove,
\* also when the relay never answers: the transport call is abandoned after
\* a bounded timeout and the decision proceeds to retry or local fallback.
C14_DecisionCompletes == (pc = "awaitRelay") ~> (pc = "done")

\* findBestMove awaits a request the relay has not begun to handle
C14_Witness == pc = "awaitRelay" /\ relayPc = "request" /\ adapter = "pending"

(***************************************************************************)
(* The search on the oracle object.  A Chess object is the list of the     *)
(* positions it has been through: new Chess(fen) holds one position,       *)
(* chess.move(m) adds the position m leads to, chess.undo() takes the last *)
(* one away.  A move that is not legal in the current position makes       *)
(* chess.move throw; the object is then the empty list and the search is    *)
(* abandoned.                                                              *)
(***************************************************************************)
\* new Chess(fen)
newChess(f) == << f >>

\* the loaded position of the object
current(h) == Chess(h[Len(h)])

\* chess.move(m), m one of the verbose moves listed earlier
chessMoveOn(h, m) ==
  IF h = << >> THEN h
  ELSE IF chessMove(current(h), m.from, m.to, m.promotion) = 0 THEN << >>
  ELSE Append(h, afterMove(current(h), chessMove(current(h), m.from, m.to, m.promotion)).fen)

\* an undo that does nothing
chessUndoNothing(h) == h

\* chess.undo(): without a move to take back it changes nothing
chessUndo(h) ==
  IF Len(h) <= 1 THEN h ELSE SubSeq(h, 1, Len(h) - 1)

\* an evaluator that tries the first legal move and leaves it on the board
evaluatePositionOnLeavesMove(h) ==
  [value |-> evaluatePosition(current(h)),
   chess |-> IF Len(movesOf(current(h))) > 0 THEN chessMoveOn(h, movesOf(current(h))[1]) ELSE h,
   cuts |-> 0]

\* evaluatePosition on the object: it only reads (isCheckmate, turn, isDraw,
\* board), so the object it leaves is the object it was given
evaluatePositionOn(h) == [value |-> evaluatePosition(current(h)), chess |-> h, cuts |-> 0]

RECURSIVE minimaxOn(_, _, _, _, _)
RECURSIVE maximizingLoopOn(_, _, _, _, _, _, _, _)
RECURSIVE minimizingLoopOn(_, _, _, _, _, _, _, _)

\* a pass that breaks after the first move whatever the window
maximizingStepBreakAlways(r, moves, depth, alpha, beta, k, maxEval, cuts) ==
  [value |-> MaxOf(maxEval, r.value), chess |-> chessUndo(r.chess), cuts |-> cuts + r.cuts]

\* one pass of the maximizing loop, after the recursive call has returned r:
\* undo, then update maxEval and alpha, then break or go on; cuts counts the
\* breaks that leave moves untried
maximizingStep(r, moves, depth, alpha, beta, k, maxEval, cuts) ==
  IF r.chess = << >> THEN [value |-> 0, chess |-> << >>, cuts |-> cuts]
  ELSE IF beta <= MaxOf(alpha, r.value)
  THEN [value |-> MaxOf(maxEval, r.value), chess |-> chessUndo(r.chess),
        cuts |-> cuts + r.cuts + (IF k < Len(moves) THEN 1 ELSE 0)]
  ELSE maximizingLoopOn(chessUndo(r.chess), moves, depth, MaxOf(alpha, r.value), beta,
                        k + 1, MaxOf(maxEval, r.value), cuts + r.cuts)

maximizingLoopOn(h, moves, depth, alpha, beta, k, maxEval, cuts) ==
  IF k > Len(moves) THEN [value |-> maxEval, chess |-> h, cuts |-> cuts]
  ELSE maximizingStep(minimaxOn(chessMoveOn(h, moves[k]), depth - 1, alpha, beta, FALSE),
                      moves, depth, alpha, beta, k, maxEval, cuts)

minimizingStep(r, moves, depth, alpha, beta, k, minEval, cuts) ==
  IF r.chess = << >> THEN [value |-> 0, chess |-> << >>, cuts |-> cuts]
  ELSE IF MinOf(beta, r.value) <= alpha
  THEN [value |-> MinOf(minEval, r.value), chess |-> chessUndo(r.chess),
        cuts |-> cuts + r.cuts + (IF k < Len(moves) THEN 1 ELSE 0)]
  ELSE minimizingLoopOn(chessUndo(r.chess), moves, depth, alpha, MinOf(beta, r.value),
                        k + 1, MinOf(minEval, r.value), cuts + r.cuts)

minimizingLoopOn(h, moves, depth, alpha, beta, k, minEval, cuts) ==
  IF k > Len(moves) THEN [value |-> minEval, chess |-> h, cuts |-> cuts]
  ELSE minimizingStep(minimaxOn(chessMoveOn(h, moves[k]), depth - 1, alpha, beta, TRUE),
                      moves, depth, alpha, beta, k, minEval, cuts)

\* minimax on the object: the value it returns and the object it leaves
minimaxOn(h, depth, alpha, beta, isMaximizing) ==
  IF h = << >> THEN [value |-> 0, chess |-> << >>, cuts |-> 0]
  ELSE IF depth = 0 \/ isGameOver(current(h)) THEN evaluatePositionOn(h)
  ELSE IF isMaximizing
  THEN maximizingLoopOn(h, movesOf(current(h)), depth, alpha, beta, 1, -Infinity, 0)
  ELSE minimizingLoopOn(h, movesOf(current(h)), depth, alpha, beta, 1, Infinity, 0)

\* the scoring loop of findBestMove on the object, from the k-th move on:
\* move, minimax for the side to move after it, undo; scores collects the
\* values minimax returned
RECURSIVE scoringLoopOn(_, _, _, _, _)
scoringStep(r, moves, depth, k, scores) ==
  IF r.chess = << >> THEN [scores |-> scores, chess |-> << >>]
  ELSE scoringLoopOn(chessUndo(r.chess), moves, depth, k + 1, Append(scores, r.value))

scoringLoopOn(h, moves, depth, k, scores) ==
  IF k > Len(moves) \/ h = << >> THEN [scores |-> scores, chess |-> h]
  ELSE scoringStep(minimaxOn(chessMoveOn(h, moves[k]), depth - 1, -Infinity, Infinity,
                             chessMoveOn(h, moves[k]) # << >>
                               /\ turnOf(current(chessMoveOn(h, moves[k]))) = "w"),
                   moves, depth, k, scores)

(***************************************************************************)
(* Direct calls of the evaluator and of the search                          *)
(***************************************************************************)
MaxDepth == 3

Depths == 0 .. MaxDepth

\* the windows minimax is called with: the full window of findBestMove and
\* narrower ones, as the recursive calls pass them
Windows ==
  { << -Infinity, Infinity >>, << -Infinity, 0 >>, << 0, Infinity >>, << -100, 100 >> }

\* the arguments of a direct call that has not been made yet
probeArguments(f, depth, w, isMaximizing) ==
  [op |-> "none", fen |-> f, depth |-> depth, isMaximizing |-> isMaximizing,
   alpha |-> w[1], beta |-> w[2], value |-> 0, again |-> 0, cuts |-> 0, chess |-> newChess(f)]

\* evaluatePosition(chess), twice in a row on the same object
EvaluatePositionCall ==
  /\ probe.op = "none"
  /\ probe' = [probe EXCEPT
                 !.op = "evaluatePosition",
                 !.value = evaluatePositionOn(probe.chess).value,
                 !.again = evaluatePositionOn(evaluatePositionOn(probe.chess).chess).value,
                 !.chess = evaluatePositionOn(evaluatePositionOn(probe.chess).chess).chess]
  /\ UNCHANGED << useGeminiAPI, callVars, relayRev, allowedOrigins, relayVars, geminiVars,
                  gameVars, chatCall >>

minimaxProbe(args, r) ==
  [args EXCEPT !.op = "minimax", !.value = r.value, !.again = r.value, !.cuts = r.cuts,
               !.chess = r.chess]

\* minimax(chess, depth, alpha, beta, isMaximizing)
MinimaxCall ==
  /\ probe.op = "none"
  /\ probe' = minimaxProbe(probe, minimaxOn(probe.chess, probe.depth, probe.alpha,
                                            probe.beta, probe.isMaximizing))
  /\ UNCHANGED << useGeminiAPI, callVars, relayRev, allowedOrigins, relayVars, geminiVars,
                  gameVars, chatCall >>

scoringProbe(args, depth, r) ==
  [args EXCEPT !.op = "scoringLoop", !.depth = depth, !.value = r.scores,
               !.again = r.scores, !.chess = r.chess]

\* the scoring loop of findBestMove for a position that is not over, at the
\* depth of a difficulty
ScoringLoopCall(d) ==
  /\ probe.op = "none"
  /\ ~isGameOver(current(probe.chess))
  /\ probe' = scoringProbe(probe, difficultySettings[d].depth,
                           scoringLoopOn(probe.chess, movesOf(current(probe.chess)),
                                         difficultySettings[d].depth, 1, << >>))
  /\ UNCHANGED << useGeminiAPI, callVars, relayRev, allowedOrigins, relayVars, geminiVars,
                  gameVars, chatCall >>

NextSearch ==
  \/ EvaluatePositionCall
  \/ MinimaxCall
  \/ \E d \in Difficulties : ScoringLoopCall(d)

InitSearchCalls ==
  /\ InitCall
  /\ relayRev = "format"
  /\ allowedOrigins = ALLOWED_ORIGINS(Missing)
  /\ InitRelay
  /\ InitGemini
  /\ InitGame
  /\ chatCall = NoChat
  /\ \E f \in Positions, depth \in Depths, w \in Windows, isMaximizing \in BOOLEAN :
       probe = probeArguments(f, depth, w, isMaximizing)

SpecSearch == InitSearchCalls /\ [][NextSearch]_vars

(***************************************************************************)
(* Properties of the search                                                *)
(***************************************************************************)
fullWindow == probe.alpha = -Infinity /\ probe.beta = Infinity

\* C15: for every position and every depth >= 0, minimax called with the full
\* window returns exactly the value of the unpruned depth-limited minimax over
\* the same moves and the same evaluator; the break on beta <= alpha never
\* changes the value returned.
C15_PruningKeepsValue ==
  (probe.op = "minimax" /\ fullWindow)
    => /\ probe.value = plainMinimax(Chess(probe.fen), probe.depth, probe.isMaximizing)
       /\ minimax(Chess(probe.fen), probe.depth, -Infinity, Infinity, probe.isMaximizing)
            = plainMinimax(Chess(probe.fen), probe.depth, probe.isMaximizing)

\* a full-window call at the largest depth in which a break left moves untried
C15_Witness ==
  /\ probe.op = "minimax"
  /\ fullWindow
  /\ probe.depth = MaxDepth
  /\ probe.cuts > 0
  /\ probe.value = plainMinimax(Chess(probe.fen), probe.depth, probe.isMaximizing)

\* the values the scoring loop gets when every move is applied to the input
\* position itself: minimax on the position the k-th move leads to
RECURSIVE siblingScores(_, _, _)
siblingScores(chess, depth, k) ==
  IF k = 0 THEN << >>
  ELSE Append(siblingScores(chess, depth, k - 1),
              minimax(afterMove(chess, k), depth - 1, -Infinity, Infinity,
                      turnOf(afterMove(chess, k)) = "w"))

\* C16: every apply of a move in the search is matched by exactly one undo,
\* also when a branch is cut off: when a minimax call returns, the board is
\* the board it was entered with; each sibling move is applied to the
\* unmodified parent position (the value is the one computed on positions that
\* are never modified); after the scoring loop of findBestMove the board
\* equals the input position.
C16_SearchRestoresBoard ==
  /\ probe.op = "minimax"
       => /\ probe.chess = newChess(probe.fen)
          /\ probe.value = minimax(Chess(probe.fen), probe.depth, probe.alpha, probe.beta,
                                   probe.isMaximizing)
  /\ probe.op = "scoringLoop"
       => /\ probe.chess = newChess(probe.fen)
          /\ probe.value = siblingScores(Chess(probe.fen), probe.depth,
                                         Len(movesOf(Chess(probe.fen))))

\* a call with a narrow window in which a break left moves untried, and that
\* returned with the board it was entered with
C16_Witness ==
  /\ probe.op = "minimax"
  /\ probe.alpha = -100
  /\ probe.beta = 100
  /\ probe.depth >= 2
  /\ probe.cuts > 0
  /\ probe.chess = newChess(probe.fen)

\* C17: on the scored branch without noise (master), when several legal moves
\* share the best score, findBestMove returns the one that comes first in the
\* oracle's enumeration of the legal moves.
C17_TieGoesToFirstMove ==
  (doneRemoteDisabled /\ difficulty = "master" /\ result # NoMove) =>
    /\ indexOfMove(Chess(fen), result) # 0
    /\ \A j \in 1 .. Len(movesOf(Chess(fen))) :
         MasterScoreTable[fen][j] = MasterScoreTable[fen][indexOfMove(Chess(fen), result)]
           => indexOfMove(Chess(fen), result) <= j

\* a master decision in which a later move has the score of the move returned
C17_Witness ==
  /\ doneRemoteDisabled
  /\ difficulty = "master"
  /\ result # NoMove
  /\ \E j \in 1 .. Len(movesOf(Chess(fen))) :
       /\ j > indexOfMove(Chess(fen), result)
       /\ MasterScoreTable[fen][j] = MasterScoreTable[fen][indexOfMove(Chess(fen), result)]

(***************************************************************************)
(* Properties of the evaluator                                             *)
(***************************************************************************)
evaluated == probe.op = "evaluatePosition"

\* the mate sentinel, signed for the side that is not to move
mateSentinel(chess) == IF turnOf(chess) = "w" THEN -MateScore ELSE MateScore

\* C18 as stated: evaluatePosition returns the mate sentinel with the sign
\* favouring the side not to move when the position is checkmate, and 0 for
\* every position the oracle reports as a draw, stalemate included.
C18_Original ==
  evaluated =>
    /\ isCheckmate(Chess(probe.fen)) => probe.value = mateSentinel(Chess(probe.fen))
    /\ isDraw(Chess(probe.fen)) => probe.value = 0

\* C18, amended: evaluatePosition returns the mate sentinel with the sign
\* favouring the side not to move when the position is checkmate (negative
\* when white is mated, positive when black is), also when the oracle reports
\* the checkmate position as a draw as well; it returns 0 for every position
\* that is not checkmate and that the oracle reports as a draw, stalemate
\* included.
C18_MateThenDraw ==
  evaluated =>
    /\ isCheckmate(Chess(probe.fen)) => probe.value = mateSentinel(Chess(probe.fen))
    /\ (isDraw(Chess(probe.fen)) /\ ~isCheckmate(Chess(probe.fen))) => probe.value = 0
    /\ isStalemate(Chess(probe.fen)) => probe.value = 0

\* the evaluation of a position in which white is mated
C18_Witness ==
  /\ evaluated
  /\ isCheckmate(Chess(probe.fen))
  /\ turnOf(Chess(probe.fen)) = "w"
  /\ probe.value = -MateScore

\* the material values of the reference sum
referenceValues == [p |-> 100, n |-> 320, b |-> 330, r |-> 500, q |-> 900, k |-> 0]

\* the positional bonus of a piece: its table at its square, the rows counted
\* from the far side for black
referenceBonus(piece) ==
  IF piece.color = "w" THEN pieceSquareTables[piece.type][piece.i + 1][piece.j + 1]
  ELSE pieceSquareTables[piece.type][8 - piece.i][piece.j + 1]

\* the sum of material value plus bonus over the pieces of one colour
RECURSIVE referenceSide(_, _, _)
referenceSide(board, color, k) ==
  IF k = 0 THEN 0
  ELSE referenceSide(board, color, k - 1)
       + (IF board[k].color = color
          THEN referenceValues[board[k].type] + referenceBonus(board[k]) ELSE 0)

referenceScore(board) ==
  referenceSide(board, "w", Len(board)) - referenceSide(board, "b", Len(board))

\* C19: for every position in which the game is not over, evaluatePosition
\* equals the reference sum over all pieces of material value plus
\* piece-square bonus, positive for white and negative for black, with pawn
\* 100, knight 320, bishop 330, rook 500, queen 900 and king 0.
C19_EqualsReferenceSum ==
  (evaluated /\ ~isGameOver(Chess(probe.fen)))
    => probe.value = referenceScore(boardOf(Chess(probe.fen)))

\* the evaluation of a position that is not over, with black pieces other than
\* the king on the board and a score that is not zero
C19_Witness ==
  /\ evaluated
  /\ ~isGameOver(Chess(probe.fen))
  /\ probe.value # 0
  /\ \E k \in 1 .. Len(boardOf(Chess(probe.fen))) :
       /\ boardOf(Chess(probe.fen))[k].color = "b"
       /\ boardOf(Chess(probe.fen))[k].type # "k"

C21_MinimaxIsFinite ==
  probe.op = "minimax"
    => /\ probe.value \notin {Infinity, -Infinity}
       /\ minimax(Chess(probe.fen), probe.depth, probe.alpha, probe.beta, probe.isMaximizing)
            \notin {Infinity, -Infinity}
       /\ (probe.depth > 0 /\ ~isGameOver(Chess(probe.fen)))
            => Len(movesOf(Chess(probe.fen))) > 0

\* a call that enters the move loop and returns a finite score
C21_Witness ==
  /\ probe.op = "minimax"
  /\ probe.depth > 0
  /\ ~isGameOver(Chess(probe.fen))
  /\ probe.value \notin {Infinity, -Infinity}

(***************************************************************************)
(* Properties of the retries                                               *)
(***************************************************************************)
\* C22: within one Move decision the adapter has at most one request
\* outstanding at any time: a retry is sent only after the previous attempt's
\* response or error has been received, and no two attempts of the same
\* decision are in flight together.
C22_OneRequestOutstanding ==
  /\ requests - responses \in {0, 1}
  /\ upstreamCalls - upstreamSettled \in {0, 1}
  /\ (gsPc = "awaiting") <=> (requests - responses = 1)
  /\ (relayPc \in {"first", "retry"}) <=> (upstreamCalls - upstreamSettled = 1)

\* a retry is in flight after the earlier attempts have all settled
C22_Witness ==
  \/ (gsPc = "awaiting" /\ retryCount = 2 /\ requests = 3 /\ responses = 2)
  \/ (relayPc = "retry" /\ upstreamCalls = 2 /\ upstreamSettled = 1)

(***************************************************************************)
(* Properties of the remote flag                                           *)
(***************************************************************************)
\* C23: each findBestMove call reads the shared flag once, at its start: the
\* call takes the remote path exactly if the flag is set when it starts, a
\* setUseGeminiAPI made while the decision awaits the relay changes nothing of
\* the decision, the decision then ends on the remote move or on the local
\* fallback as the relay's answer alone decides, and the flag holds the last
\* value written.
C23_FlagReadOnce ==
  [][ /\ (pc = "idle" /\ pc' = "awaitRelay") => useGeminiAPI
      /\ (pc = "idle" /\ pc' = "done") => (~useGeminiAPI /\ path' = "local")
      /\ (useGeminiAPI' # useGeminiAPI)
           => (\E enable \in BOOLEAN : setUseGeminiAPI(enable) /\ useGeminiAPI' = enable)
      /\ (pc = "awaitRelay" /\ pc' = "done")
           => IF relayPc = "responded" /\ getBestMoveParse(http) # Thrown
              THEN path' = "remote" /\ result' = getBestMoveParse(http)
              ELSE path' = "local" ]_vars

\* a decision that ended on the remote move after the flag had been cleared
C23_Witness == pc = "done" /\ path = "remote" /\ ~useGeminiAPI

(***************************************************************************)
(* Chat: geminiBackendService.ts getChatResponse.  The prompt is kept as    *)
(* the list of the user texts as they stand in it: the current message     *)
(* first, then one text per line of the conversation history.              *)
(***************************************************************************)
Quote == "\""
Backslash == "\\"
ControlCharacters == {"\n", "\r", "\t"}

\* the characters that keep a backslash from being doubled: ["\\/bfnrt]
EscapeLetters == {Quote, Backslash, "/", "b", "f", "n", "r", "t"}

\* text.replace(/[\u0000-\u001F\u007F-\u009F]/g, '')
removeControl(text) == SelectSeq(text, LAMBDA c : c \notin ControlCharacters)

\* text.replace(/\\(?!["\\/bfnrt])/g, '\\\\') from index i on
RECURSIVE escapeBackslashes(_, _)
escapeBackslashes(text, i) ==
  IF i > Len(text) THEN << >>
  ELSE IF text[i] = Backslash /\ ~(i < Len(text) /\ text[i + 1] \in EscapeLetters)
  THEN << Backslash, Backslash >> \o escapeBackslashes(text, i + 1)
  ELSE << text[i] >> \o escapeBackslashes(text, i + 1)

\* text.replace(/"/g, '\\"') from index i on
RECURSIVE escapeQuotes(_, _)
escapeQuotes(text, i) ==
  IF i > Len(text) THEN << >>
  ELSE IF text[i] = Quote THEN << Backslash, Quote >> \o escapeQuotes(text, i + 1)
  ELSE << text[i] >> \o escapeQuotes(text, i + 1)

\* the replacements of \n, \r and \t by a space
spaceForControl(text) ==
  [i \in 1 .. Len(text) |-> IF text[i] \in ControlCharacters THEN " " ELSE text[i]]

\* sanitizeMessage: the chain of replacements in the order of the source (an
\* empty text is returned as it is)
sanitizeMessage(text) ==
  spaceForControl(escapeQuotes(escapeBackslashes(removeControl(text), 1), 1))

EmptyMessage ==
  << "[", "e", "m", "p", "t", "y", " ", "m", "e", "s", "s", "a", "g", "e", "]" >>

\* the text of one line of the conversation history
historyLine(chat) ==
  IF chat.message # << >> THEN sanitizeMessage(chat.message) ELSE EmptyMessage

\* the user texts of the prompt: `Player's message: "${message}"`, then the
\* history lines
promptTexts(message, chatHistory) ==
  << message >> \o [i \in 1 .. Len(chatHistory) |-> historyLine(chatHistory[i])]

MaxMessage == 2

ChatCharacters == {"a", "n", Quote, Backslash, "\n"}

RECURSIVE textsUpTo(_)
textsUpTo(n) ==
  IF n = 0 THEN {<< >>}
  ELSE textsUpTo(n - 1) \cup {Append(t, c) : t \in textsUpTo(n - 1), c \in ChatCharacters}

ChatMessages == textsUpTo(MaxMessage)

ChatHistories ==
  {<< >>} \cup {<< [sender |-> "Player", message |-> t] >> : t \in ChatMessages}

\* getChatResponse(fen, message, difficulty, chatHistory) builds its prompt
GetChatResponse ==
  /\ chatCall.op = "none"
  /\ chatCall' = [chatCall EXCEPT !.op = "prompt",
                                  !.prompt = promptTexts(chatCall.message, chatCall.chatHistory)]
  /\ UNCHANGED << useGeminiAPI, callVars, relayRev, allowedOrigins, relayVars, geminiVars,
                  gameVars, probe >>

InitChat ==
  /\ InitCall
  /\ relayRev = "format"
  /\ allowedOrigins = ALLOWED_ORIGINS(Missing)
  /\ InitRelay
  /\ InitGemini
  /\ InitGame
  /\ probe = NoProbe
  /\ \E message \in ChatMessages, history \in ChatHistories :
       chatCall = [NoChat EXCEPT !.message = message, !.chatHistory = history]

SpecChat == InitChat /\ [][GetChatResponse]_vars

\* a text as a sanitized text must be: no control character, every backslash
\* followed by a backslash or a double quote it escapes, no double quote
\* without its backslash
RECURSIVE wellEscapedFrom(_, _)
wellEscapedFrom(text, i) ==
  IF i > Len(text) THEN TRUE
  ELSE IF text[i] \in ControlCharacters \/ text[i] = Quote THEN FALSE
  ELSE IF text[i] = Backslash
  THEN i < Len(text) /\ text[i + 1] \in {Backslash, Quote} /\ wellEscapedFrom(text, i + 2)
  ELSE wellEscapedFrom(text, i + 1)

sanitized(text) == wellEscapedFrom(text, 1)

\* C24: in the prompt built for a Chat request, every piece of user-supplied
\* text, the current message as well as each message of the prior transcript,
\* appears sanitized: no control character, no unescaped double quote or
\* backslash, newlines collapsed.
C24_ChatTextsSanitized ==
  chatCall.op = "prompt"
    => \A i \in 1 .. Len(chatCall.prompt) : sanitized(chatCall.prompt[i])

\* a prompt built from a message with a double quote and a history line
C24_Witness ==
  /\ chatCall.op = "prompt"
  /\ \E i \in 1 .. Len(chatCall.message) : chatCall.message[i] = Quote
  /\ Len(chatCall.prompt) = 2

(***************************************************************************)
(* Properties of the extraction of the move                                *)
(***************************************************************************)
\* m is made of the parts of the token [a-h][1-8][a-h][1-8][qrbn]? that text
\* holds at index i (letters compared without their case)
partsOfTokenAt(text, i, m) ==
  /\ tokenAt(text, i, TRUE)
  /\ toLowerCase(m.from) = toLowerCase(SubSeq(text, i, i + 1))
  /\ toLowerCase(m.to) = toLowerCase(SubSeq(text, i + 2, i + 3))
  /\ \/ m.promotion = Undefined
     \/ /\ i + 4 <= Len(text)
        /\ charToLowerCase(text[i + 4]) \in PromotionLetters
        /\ charToLowerCase(m.promotion) = charToLowerCase(text[i + 4])

yieldsToken(text, m) == \E i \in 1 .. Len(text) : partsOfTokenAt(text, i, m)

hasToken(text) == \E i \in 1 .. Len(text) : tokenAt(text, i, TRUE)

\* C25: an attempt of a Move request yields a Move only if the response text
\* holds a token matching [a-h][1-8][a-h][1-8][qrbn]? (case-insensitive), and
\* the from, to and promotion yielded are the parts of such a token; a
\* response without such a token never yields a move and counts as a
\* malformed attempt (a retry or a failure).
C25_MoveComesFromToken ==
  [][ /\ (pc # "done" /\ pc' = "done" /\ path' = "remote")
           => yieldsToken(http.content, result')
      /\ (pc # "done" /\ pc' = "done" /\ relayPc = "responded" /\ ~hasToken(http.content))
           => (path' = "local" /\ adapter' = "responseError")
      /\ \A out \in GeminiOutcomes :
           GeminiResponse(out) =>
             /\ gsPc' = "returned" => (out \in GeminiTexts /\ yieldsToken(out, gsMove'))
             /\ (out \in GeminiTexts /\ ~hasToken(out))
                  => (gsPc' = "thrown" \/ retryCount' = retryCount + 1) ]_vars

\* a move that GeminiService took out of a longer response text
C25_Witness ==
  /\ gsPc = "returned"
  /\ gsMove = [from |-> << "e", "7" >>, to |-> << "e", "5" >>, promotion |-> Undefined]
  /\ requests = 2

(***************************************************************************)
(* findBestMove for a position string the oracle does not decode           *)
(***************************************************************************)
\* findBestMove of aiService.ts 240-271 with getBestMove of
\* geminiBackendService.ts 116-121: with the flag on, getBestMove throws at
\* new Chess(fen) before any request, findBestMove catches and falls
\* through; new Chess(fen) of the local implementation throws and
\* findBestMove rejects
FindBestMoveUndecodable(d) ==
  /\ pc = "idle"
  /\ Chess(MalformedFen) = ChessThrows
  /\ fen' = MalformedFen
  /\ difficulty' = d
  /\ adapter' = IF useGeminiAPI THEN "decodeError" ELSE adapter
  /\ result' = Thrown
  /\ path' = "rejected"
  /\ pc' = "done"
  /\ UNCHANGED << useGeminiAPI, relayRev, allowedOrigins, relayVars, geminiVars, gameVars, searchVars >>

\* findBestMove with the getBestMove of the earlier revision (aiService.ts
\* 661-724), which puts the string into the prompt and the request without
\* decoding it
FindBestMoveUndecodableEarlier(d) == FindBestMoveRemoteCall(MalformedFen, d)

NextUndecodable ==
  \/ \E enable \in BOOLEAN : setUseGeminiAPI(enable)
  \/ \E d \in Difficulties : FindBestMoveUndecodable(d)
  \/ \E d \in Difficulties : FindBestMoveUndecodableEarlier(d)
  \/ HandlerStart
  \/ \E out \in UpstreamOutcomes : HandlerFirstResponse(out)
  \/ \E out \in UpstreamOutcomes : HandlerRetryResponse(out)
  \/ ClientReceive
  \/ TransportFailure

SpecUndecodable == Init /\ [][NextUndecodable]_vars

\* C26: for a position string that cannot be decoded, findBestMove fails with
\* an error (neither a Move nor NoMove), with the remote flag on or off, and
\* nothing is retried: no request goes upstream and no remote move is
\* returned.
C26_UndecodableIsFatal ==
  (pc = "done" /\ fen = MalformedFen) =>
    /\ path = "rejected"
    /\ result = Thrown
    /\ upstreamCalls = 0

\* the same for the getBestMove that decodes the position before the request
decodingRevisionIsFatal ==
  (pc = "done" /\ fen = MalformedFen /\ adapter \in {"none", "decodeError"}) =>
    /\ path = "rejected"
    /\ result = Thrown
    /\ upstreamCalls = 0

\* findBestMove has failed with the remote flag on
C26_Witness ==
  /\ pc = "done"
  /\ fen = MalformedFen
  /\ useGeminiAPI
  /\ adapter = "decodeError"
  /\ path = "rejected"

(***************************************************************************)
(* Properties of the local implementation                                  *)
(***************************************************************************)
\* the move the random branch returns for the draws r1 and r2
randomMove(chess, d, r1, r2) == findBestMoveLocal(chess, d, r1, r2, NoNoise(chess))

\* m is one of chess.moves({ verbose: true })
inLegalMoveList(chess, m) ==
  \E k \in 1 .. Len(movesOf(chess)) : MoveOf(movesOf(chess)[k]) = m

\* C27: with remote disabled, every Move findBestMove returns is an element
\* of the oracle's legal-move list of the input position, on the random
\* branch (taken only when randomMoveChance > 0 and the draw falls below it,
\* never at master) and on the scored branch.
C27_LocalMoveIsLegal ==
  doneRemoteDisabled =>
    /\ result # NoMove =>
         (inLegalMoveList(Chess(fen), result) /\ isLegalMove(Chess(fen), result))
    /\ \A r1 \in Rand :
         randomBranchTaken(difficulty, r1) =>
           /\ difficultySettings[difficulty].randomMoveChance > 0
           /\ r1 * 100 < difficultySettings[difficulty].randomMoveChance * RandGrain
           /\ difficulty # "master"
           /\ \A r2 \in Rand :
                ~isGameOver(Chess(fen)) => inLegalMoveList(Chess(fen), randomMove(Chess(fen), difficulty, r1, r2))

\* a move that only the random branch returns for the position
C27_Witness ==
  /\ doneRemoteDisabled
  /\ result # NoMove
  /\ \E r1, r2 \in Rand :
       /\ randomBranchTaken(difficulty, r1)
       /\ result = randomMove(Chess(fen), difficulty, r1, r2)
  /\ \A nz \in NoiseDraws(Chess(fen)) :
       result # findBestMoveLocal(Chess(fen), difficulty, RandGrain - 1, 0, nz)

(***************************************************************************)
(* Properties of the game slice                                            *)
(***************************************************************************)
TerminalStatuses == {"white-won", "black-won", "draw"}

\* C28: once the status is terminal (white-won, black-won or draw), neither
\* the position nor the status changes until startNewGame is dispatched,
\* also not by a move of an AI computation started before the game ended.
C28_TerminalIsFrozen ==
  [][ (/\ game.status \in TerminalStatuses
       /\ ~(\E t \in GameTypes, d \in Difficulties : handleStartNewGame(t, d)))
        => (game'.fen = game.fen /\ game'.status = game.status) ]_vars

\* the game has ended while a timer of the middleware is still set
C28_Witness ==
  /\ game.status \in TerminalStatuses
  /\ pending # << >>

\* C29: at most one AI move computation is pending per game at any time: an
\* action passing through the middleware while the computation for the
\* current AI turn is pending (a chat message, say) schedules no second one.
C29_OneComputationPending == Len(pending) <= 1

\* a computation is pending for the position of the game, black to move
C29_Witness ==
  /\ Len(pending) = 1
  /\ Head(pending).fen = game.fen
  /\ game.turn = "b"
  /\ game.status = "in-progress"

\* chessUtils.ts makeMove: the position after the move, or the position it
\* was given when chess.move throws
chessUtilsMakeMove(f, from, to, promotion) ==
  IF chessMove(Chess(f), from, to, promotion) = 0 THEN f
  ELSE fenOf(afterMove(Chess(f), chessMove(Chess(f), from, to, promotion)))

\* the payloads of makeMove: the squares a player can drop on, with or
\* without a promotion letter
MovePayloads ==
  {[from |-> sq[1], to |-> sq[2], promotion |-> promotion] :
     sq \in DropSquares, promotion \in {Undefined, "q", "n", "p"}}

\* m lacks nothing but the promotion letter of a legal promotion
lacksPromotionOnly(chess, m) ==
  /\ m.promotion = Undefined
  /\ \E letter \in PromotionLetters : isLegalMove(chess, [m EXCEPT !.promotion = letter])

(***************************************************************************)
(* The reducer makeMove on its own: every state the slice can be in, with  *)
(* every payload                                                           *)
(***************************************************************************)
\* the slices one step after s: a new game, a move dropped while the game is
\* in progress (onDrop sends no promotion or the letter p), a resignation, and the move of a timer that was set for the
\* position (in this game or an earlier one) before the game ended
nextSlices(s) ==
  {startNewGame(s, t, IF t = "vs-computer" THEN d ELSE Undefined,
                      IF t = "vs-computer" THEN "AI" ELSE Undefined) :
     t \in GameTypes, d \in Difficulties}
  \cup (IF s.status = "in-progress"
        THEN {makeMove(s, m.from, m.to, m.promotion) :
                m \in {n \in MovePayloads : n.promotion \in {Undefined, "p"}}}
             \cup {resignGame(s)}
        ELSE {})
  \cup (IF s.status \in TerminalStatuses /\ s.turn = "b"
        THEN {makeMove(s, m.from, m.to, m.promotion) :
                m \in UNION {LocalResultsTable[s.fen][d] : d \in Difficulties} \ {NoMove}}
        ELSE {})

RECURSIVE slicesFrom(_)
slicesFrom(S) ==
  IF (UNION {nextSlices(s) : s \in S}) \subseteq S THEN S
  ELSE slicesFrom(S \cup UNION {nextSlices(s) : s \in S})

\* every state of the slice
GameStates == slicesFrom({initialState})

\* store.dispatch(makeMove(payload)): the reducer, then the middleware
MakeMoveDispatch ==
  /\ probe.op = "none"
  /\ Dispatch(makeMove(game, probe.move.from, probe.move.to, probe.move.promotion))
  /\ probe' = [probe EXCEPT !.op = "makeMove"]
  /\ UNCHANGED << useGeminiAPI, callVars, relayRev, allowedOrigins, relayVars, geminiVars,
                  chatCall >>

\* a call of the utility makeMove with the position of the game
ChessUtilsMakeMoveCall ==
  /\ probe.op = "none"
  /\ probe' = [probe EXCEPT !.op = "chessUtils",
                            !.value = chessUtilsMakeMove(game.fen, probe.move.from,
                                                         probe.move.to, probe.move.promotion)]
  /\ UNCHANGED << useGeminiAPI, callVars, relayRev, allowedOrigins, relayVars, geminiVars,
                  gameVars, chatCall >>

NextReducer == MakeMoveDispatch \/ ChessUtilsMakeMoveCall

\* the slice in one of its states, with the timer of the turn when it is the
\* AI's, and a payload
InitReducer ==
  /\ InitCall
  /\ relayRev = "format"
  /\ allowedOrigins = ALLOWED_ORIGINS(Missing)
  /\ InitRelay
  /\ InitGemini
  /\ game \in GameStates
  /\ pending = aiMiddleware(game, << >>)
  /\ \E m \in MovePayloads :
       probe = [op |-> "none", move |-> m, before |-> game, value |-> 0]
  /\ chatCall = NoChat

SpecReducer == InitReducer /\ [][NextReducer]_vars

\* the payload is not a legal move of the position the slice was in
illegalPayload == ~isLegalMove(Chess(probe.before.fen), probe.move)

\* C30 as stated: makeMove with a move that is illegal in the current
\* position leaves the whole game state unchanged.
C30_Original ==
  (probe.op = "makeMove" /\ illegalPayload) => game = probe.before

\* C30, amended: makeMove with a move that is illegal in the current position
\* leaves the whole game state unchanged (fen, history, turn, the flags and
\* the status), unless the move is a pawn's move to the last rank that lacks
\* only its promotion letter (the reducer then promotes to a queen); the
\* utility makeMove returns the position it was given for every illegal move.
C30_IllegalMoveIgnored ==
  illegalPayload =>
    /\ (probe.op = "makeMove" /\ ~lacksPromotionOnly(Chess(probe.before.fen), probe.move))
         => game = probe.before
    /\ (probe.op = "makeMove" /\ lacksPromotionOnly(Chess(probe.before.fen), probe.move))
         => game = makeMove(probe.before, probe.move.from, probe.move.to, "q")
    /\ probe.op = "chessUtils" => probe.value = probe.before.fen

\* an illegal move was dispatched in a game in progress
C30_Witness ==
  /\ probe.op = "makeMove"
  /\ illegalPayload
  /\ ~lacksPromotionOnly(Chess(probe.before.fen), probe.move)
  /\ probe.before.status = "in-progress"
  /\ probe.before.history > 0
  /\ game = probe.before

(***************************************************************************)
(* The texts of the AI service: aiService.ts generateAIAnalysis and        *)
(* generateAIChatResponse, with getPositionAnalysis and getChatResponse of *)
(* geminiBackendService.ts                                                 *)
(***************************************************************************)
\* String.prototype.includes
textIncludes(s, t) ==
  \E i \in 1 .. (Len(s) - Len(t) + 1) : SubSeq(s, i, i + Len(t) - 1) = t

includesAny(s, words) == \E w \in words : textIncludes(s, w)

HintWords == {<< "h", "i", "n", "t" >>,
    << "h", "e", "l", "p" >>,
    << "w", "h", "a", "t", " ", "s", "h", "o", "u", "l", "d", " ", "i", " ", "d", "o" >>}

AnalysisWords == {<< "a", "n", "a", "l", "y", "s", "i", "s" >>,
    << "e", "v", "a", "l", "u", "a", "t", "e" >>,
    << "h", "o", "w", " ", "i", "s", " ", "t", "h", "e", " ", "p", "o", "s", "i", "t", "i", "o", "n" >>}

GreetingWords == {<< "h", "e", "l", "l", "o" >>,
    << "h", "i" >>,
    << "h", "e", "y" >>}

ThanksWords == {<< "t", "h", "a", "n", "k" >>,
    << "t", "h", "a", "n", "k", "s" >>}

PraiseWords == {<< "g", "o", "o", "d", " ", "m", "o", "v", "e" >>,
    << "n", "i", "c", "e", " ", "m", "o", "v", "e" >>}

\* generateAIChatResponse, local implementation: the branch the lowercased
\* message takes, in the order of the tests
messageBranch(message) ==
  IF includesAny(toLowerCase(message), HintWords) THEN "hint"
  ELSE IF includesAny(toLowerCase(message), AnalysisWords) THEN "analysis"
  ELSE IF includesAny(toLowerCase(message), GreetingWords) THEN "greeting"
  ELSE IF includesAny(toLowerCase(message), ThanksWords) THEN "thanks"
  ELSE IF includesAny(toLowerCase(message), PraiseWords) THEN "praise"
  ELSE "default"

\* a text the service returns: the template it was made from and what was
\* put into it (a move, the trimmed content of the relay's answer, ...)
Text(template, move, content) == [template |-> template, move |-> move, content |-> content]

\* the promise of the operation rejects
Rejected == Text("rejected", NoMove, << >>)

\* generateAIAnalysis, local implementation, up to the evaluation: the
\* game-state messages
gameStateMessage(chess) ==
  IF isCheckmate(chess) THEN "checkmate"
  ELSE IF isDraw(chess) THEN (IF isStalemate(chess) THEN "stalemate" ELSE "draw by rule")
  ELSE IF isCheck(chess) THEN "check"
  ELSE "none"

\* the thresholds of absEval for a difficulty
advantageThresholds(d) ==
  IF d \in {"beginner", "intermediate"} THEN << 100, 300, 900 >> ELSE << 50, 200, 500, 900 >>

abs(n) == IF n < 0 THEN -n ELSE n

\* the message chosen for the evaluation: which of the if-branches is taken
advantageMessage(d, evaluation) ==
  Cardinality({i \in 1 .. Len(advantageThresholds(d)) :
                 ~(abs(evaluation) < advantageThresholds(d)[i])})

\* case 'advanced' / case 'master': the analysis asks findBestMove for a move
recommendsMove(chess, d) ==
  gameStateMessage(chess) = "none" /\ d \in {"advanced", "master"}

\* generateAIAnalysis, local implementation, without the recommendation
localAnalysis(chess, d) ==
  IF gameStateMessage(chess) # "none"
  THEN Text(gameStateMessage(chess), NoMove, << >>)
  ELSE Text("evaluation", NoMove, << advantageMessage(d, evaluatePosition(chess)) >>)

\* the recommendation is appended when findBestMove returned a move
withRecommendation(text, bestMove) == [text EXCEPT !.move = bestMove]

\* the hint of generateAIChatResponse for what findBestMove returned
hintText(bestMove) ==
  IF bestMove # NoMove THEN Text("hint", bestMove, << >>) ELSE Text("no good moves", NoMove, << >>)

\* responses[Math.floor(Math.random() * responses.length)], five responses
defaultResponse(d, r) == Text("default", NoMove, << d, (r * 5) \div RandGrain >>)

\* getPositionAnalysis and getChatResponse on the relay's answer: the
\* trimmed content, or Rejected (sendGeminiRequest throws unless response.ok,
\* they throw unless success)
getTextParse(data) ==
  IF ~(data.status >= 200 /\ data.status < 300) THEN Rejected
  ELSE IF ~data.success THEN Rejected
  ELSE Text("remote", NoMove, trim(data.content))

\* no operation of the service has been called
NoService ==
  [op |-> "none", stage |-> "idle", fen |-> 0, difficulty |-> "intermediate",
   message |-> << >>, failed |-> FALSE, text |-> Text("none", NoMove, << >>)]

\* the request sendGeminiRequest posts for an analysis or a chat message
ServiceEvent(requestType, f) ==
  [httpMethod |-> "POST", headers |-> [origin |-> CodeServer, Origin |-> Missing],
   body |-> [valid |-> TRUE, requestType |-> requestType, fen |-> f]]

\* fetch: the request reaches the relay
SendRequest(ev) ==
  /\ relayPc' = "request"
  /\ event' = ev
  /\ UNCHANGED << upstreamCalls, upstreamSettled, firstText, feedback, retryText, http >>

\* the operation returns (text) or rejects (Rejected) without a request
returnsText(c, text) ==
  /\ chatCall' = [c EXCEPT !.stage = "done", !.text = text]
  /\ UNCHANGED relayVars

\* what the caller of findBestMove makes of its result: the hint of the
\* chat, or the analysis with its recommendation (chess is new Chess(fen))
moveText(c, chess, stage, bestMove, how) ==
  IF how = "rejected" THEN Rejected
  ELSE IF stage = "hintMove" THEN hintText(bestMove)
  ELSE withRecommendation(localAnalysis(chess, c.difficulty), bestMove)

\* await findBestMove(fen, difficulty) inside the service: with the flag on
\* the request of getBestMove is sent and the operation waits; with the
\* flag off the local implementation returns at once (one of localResults)
findBestMoveFrom(c, chess, stage, localResults) ==
  /\ fen' = c.fen
  /\ difficulty' = c.difficulty
  /\ IF useGeminiAPI
     THEN /\ pc' = "awaitRelay"
          /\ adapter' = "pending"
          /\ SendRequest(FrontendEvent(c.fen))
          /\ UNCHANGED << result, path >>
          /\ chatCall' = [c EXCEPT !.stage = stage]
     ELSE /\ pc' = "done"
          /\ adapter' = "none"
          /\ result' \in localResults
          /\ path' = "local"
          /\ returnsText(c, moveText(c, chess, stage, result', "local"))

\* generateAIAnalysis, local implementation (lines 345-432)
localAnalysisFrom(c, chess, localResults) ==
  IF recommendsMove(chess, c.difficulty)
  THEN findBestMoveFrom(c, chess, "analysisMove", localResults)
  ELSE /\ returnsText(c, localAnalysis(chess, c.difficulty))
       /\ UNCHANGED callVars

\* a generateAIAnalysis that goes to the relay whatever the flag says
generateAIAnalysisAlwaysRemote(c, chess, localResults, caught) ==
  IF ~caught
  THEN /\ chatCall' = [c EXCEPT !.stage = "awaitAnalysis"]
       /\ SendRequest(ServiceEvent("analysis", c.fen))
       /\ UNCHANGED callVars
  ELSE localAnalysisFrom(c, chess, localResults)

\* generateAIAnalysis from its entry to its first await or its return, or,
\* when getPositionAnalysis has thrown (caught), from its catch block on
generateAIAnalysisFrom(c, chess, localResults, caught) ==
  IF useGeminiAPI /\ ~caught
  THEN /\ chatCall' = [c EXCEPT !.stage = "awaitAnalysis"]
       /\ SendRequest(ServiceEvent("analysis", c.fen))
       /\ UNCHANGED callVars
  ELSE localAnalysisFrom(c, chess, localResults)

\* generateAIChatResponse, local implementation (lines 457-559), for the
\* branch the message takes
localChatFrom(c, branch, chess, localResults) ==
  IF branch = "hint" THEN findBestMoveFrom(c, chess, "hintMove", localResults)
  ELSE IF branch = "default"
  THEN /\ \E r \in Rand : returnsText(c, defaultResponse(c.difficulty, r))
       /\ UNCHANGED callVars
  ELSE /\ returnsText(c, Text(branch, NoMove, << >>))
       /\ UNCHANGED callVars

\* a service whose catch blocks rethrow
serviceResumeRethrows(c, p, chess, localResults) ==
  /\ returnsText(c, p)
  /\ UNCHANGED callVars

\* getPositionAnalysis or getChatResponse has settled with p (a text, or
\* Rejected) for the call c: the text is returned; a failure is caught and
\* the local implementation runs, which for a chat message that asks for an
\* analysis is generateAIAnalysis from its entry
serviceResume(c, p, chess, localResults) ==
  IF p # Rejected
  THEN /\ returnsText(c, p)
       /\ UNCHANGED callVars
  ELSE IF c.stage = "awaitAnalysis" \/ messageBranch(c.message) = "analysis"
  THEN generateAIAnalysisFrom([c EXCEPT !.failed = TRUE], chess, localResults,
                              c.stage = "awaitAnalysis")
  ELSE localChatFrom([c EXCEPT !.failed = TRUE], messageBranch(c.message), chess, localResults)

ServiceUnchanged == UNCHANGED << useGeminiAPI, relayRev, allowedOrigins, geminiVars, gameVars, probe >>

\* generateAIAnalysis(fen, difficulty) is called
GenerateAIAnalysisCall(f, d) ==
  /\ chatCall.op = "none"
  /\ generateAIAnalysisFrom([NoService EXCEPT !.op = "analysis", !.fen = f, !.difficulty = d],
                            Chess(f), LocalResultsTable[f][d], FALSE)
  /\ ServiceUnchanged

\* generateAIChatResponse(fen, message, difficulty) is called: getChatResponse
\* sends its request
GenerateAIChatResponseCall(f, message, d) ==
  /\ chatCall.op = "none"
  /\ chatCall' = [NoService EXCEPT !.op = "chat", !.fen = f, !.difficulty = d,
                                   !.message = message, !.stage = "awaitChat"]
  /\ SendRequest(ServiceEvent("chat", f))
  /\ UNCHANGED callVars
  /\ ServiceUnchanged

\* the request of getPositionAnalysis or getChatResponse settles: the relay's
\* answer arrives, or fetch rejects
TextSettles ==
  /\ chatCall.stage \in {"awaitChat", "awaitAnalysis"}
  /\ serviceResume(chatCall,
                   IF relayPc = "responded" THEN getTextParse(http) ELSE Rejected,
                   Chess(chatCall.fen),
                   LocalResultsTable[chatCall.fen][chatCall.difficulty])
  /\ ServiceUnchanged

\* the findBestMove the service awaits has settled
ServiceMoveReturned ==
  /\ chatCall.stage \in {"analysisMove", "hintMove"}
  /\ pc = "done"
  /\ chatCall' = [chatCall EXCEPT !.stage = "done",
                                  !.text = moveText(chatCall, Chess(chatCall.fen),
                                                    chatCall.stage, result, path)]
  /\ UNCHANGED << callVars, relayVars >>
  /\ ServiceUnchanged

\* the positions and the messages of the calls
ServicePositions == {1, 3, 10, 13, 17, 18, 19}

ServiceMessages ==
  { << "H", "i", "n", "t" >>,
    << "e", "v", "a", "l", "u", "a", "t", "e" >>,
    << "t", "h", "i", "s" >>,
    << "t", "h", "a", "n", "k", "s" >>,
    << "n", "i", "c", "e", " ", "m", "o", "v", "e" >>,
    << "o", "k" >> }

\* what the text-generation API answers to an analysis or a chat request
ServiceOutcomes == {<< " ", "o", "k", "\n" >>, << >>, UpstreamError}

NextService ==
  \/ \E enable \in BOOLEAN : setUseGeminiAPI(enable)
  \/ \E f \in ServicePositions, d \in Difficulties : GenerateAIAnalysisCall(f, d)
  \/ \E f \in ServicePositions, message \in ServiceMessages, d \in Difficulties :
       GenerateAIChatResponseCall(f, message, d)
  \/ HandlerStart
  \/ \E out \in (IF event.body.requestType = "move" THEN UpstreamOutcomes ELSE ServiceOutcomes) :
       HandlerFirstResponse(out)
  \/ \E out \in UpstreamOutcomes : HandlerRetryResponse(out)
  \/ TextSettles
  \/ ClientReceive
  \/ TransportFailure
  \/ ServiceMoveReturned

InitService ==
  /\ InitCall
  /\ relayRev \in {"format", "legal"}
  /\ allowedOrigins = ALLOWED_ORIGINS(Missing)
  /\ InitRelay
  /\ InitGemini
  /\ InitGame
  /\ probe = NoProbe
  /\ chatCall = NoService

SpecService == InitService /\ [][NextService]_vars

(***************************************************************************)
(* Properties of the texts of the AI service                               *)
(***************************************************************************)
\* C31: for a decodable position, generateAIChatResponse and
\* generateAIAnalysis never reject because of a remote failure: after every
\* transport error or non-success response they fall back to the local
\* implementation and return a text.
C31_RemoteFailureFallsBack ==
  (chatCall.op \in {"analysis", "chat"} /\ chatCall.stage = "done") =>
    /\ chatCall.text # Rejected
    /\ chatCall.text.template \notin {"rejected", "none"}
    /\ (chatCall.failed /\ (chatCall.op = "analysis" \/ messageBranch(chatCall.message) # "analysis"))
         => chatCall.text.template # "remote"

\* the chat request failed and the hint of the local implementation came back
C31_Witness ==
  /\ chatCall.op = "chat"
  /\ chatCall.stage = "done"
  /\ chatCall.failed
  /\ http = HttpError(500)
  /\ chatCall.text.template = "hint"
  /\ chatCall.text.move # NoMove

\* a request of the client leaves for the relay in this step
requestSent == relayPc' = "request" /\ (relayPc # "request" \/ event' # event)

\* C32: while the remote flag is disabled, no operation of the AI service
\* (move selection, position analysis, chat response) sends a request to the
\* remote relay.
C32_NoRequestWhileDisabled == [][requestSent => useGeminiAPI]_vars

\* the analysis ran locally with the flag disabled, and no request was made
C32_Witness ==
  /\ ~useGeminiAPI
  /\ chatCall.op = "analysis"
  /\ chatCall.stage = "done"
  /\ chatCall.text.template = "evaluation"
  /\ relayPc = "idle"

(***************************************************************************)
(* Determinism of the local implementation at master                       *)
(***************************************************************************)
\* C33: at master difficulty with remote disabled, findBestMove returns the
\* same move for a position whatever the random number source produces: the
\* move returned is the one every outcome of the random-move draw, the index
\* draw and the noise draws gives.
C33_MasterIsDeterministic ==
  (doneRemoteDisabled /\ difficulty = "master") =>
    \A r1 \in Rand, r2 \in Rand, nz \in NoiseDraws(Chess(fen)) :
      findBestMoveLocal(Chess(fen), "master", r1, r2, nz) = result

\* a master call that returned a move of a position with several legal
\* moves, which a lower difficulty does not answer with one move only
C33_Witness ==
  /\ doneRemoteDisabled
  /\ difficulty = "master"
  /\ result # NoMove
  /\ Len(movesOf(Chess(fen))) > 1
  /\ Cardinality(LocalResultsTable[fen]["beginner"]) > 1

(***************************************************************************)
(* The noise of the scoring loop                                           *)
(***************************************************************************)
\* the index of the move the scoring loop of findBestMove chooses for the
\* noise draws nz (0 for null)
scoredChoice(chess, d, nz) ==
  scoringLoop(chess, d, nz, 1, 0,
              IF turnOf(chess) = "w" THEN -(RandGrain * Infinity)
                                     ELSE RandGrain * Infinity)

\* the distance of the k-th move's search score from the best search score
\* of the position (the greatest for white, the least for black), times
\* RandGrain
scoreLoss(chess, d, k) ==
  LET scores == SearchScoreTable[fenOf(chess)][d]
      best == CHOOSE s \in {scores[j] : j \in 1 .. Len(scores)} :
                \A j \in 1 .. Len(scores) :
                  IF turnOf(chess) = "w" THEN scores[j] <= s ELSE scores[j] >= s
  IN abs(scores[k] - best)

\* C34: on the scored branch, for every difficulty and every outcome of the
\* noise draws (one per root move, each of magnitude at most noiseScale*10),
\* the search score of the chosen move differs from the best search score
\* among the legal moves by at most 2*noiseScale*10 (40, 20, 10 and 0).
C34_NoiseBoundsTheLoss ==
  (doneRemoteDisabled /\ ~isGameOver(Chess(fen))) =>
    \A nz \in NoiseDraws(Chess(fen)) :
      /\ abs(noiseOf(difficulty, nz[1])) <= RandGrain * difficultySettings[difficulty].evaluationNoise
      /\ scoredChoice(Chess(fen), difficulty, nz) # 0
      /\ scoreLoss(Chess(fen), difficulty, scoredChoice(Chess(fen), difficulty, nz))
           <= 2 * RandGrain * difficultySettings[difficulty].evaluationNoise

\* the scored branch returned a move that is not the best by search score:
\* the noise changed the choice
C34_Witness ==
  /\ doneRemoteDisabled
  /\ result # NoMove
  /\ \E nz \in NoiseDraws(Chess(fen)) :
       LET k == scoredChoice(Chess(fen), difficulty, nz)
       IN /\ k # 0
          /\ result = MoveOf(movesOf(Chess(fen))[k])
          /\ scoreLoss(Chess(fen), difficulty, k) > 0

(***************************************************************************)
(* The static evaluation of positions with promoted pieces                 *)
(*                                                                         *)
(* White keeps its king, rooks, bishops and knights and has up to nine     *)
(* queens (the original one and eight promoted pawns).  The queens stand   *)
(* on a1..c3 behind the other white pieces (Ka4 Rb4 Rc4 Bd4 Bd3 Nd2 Nd1),  *)
(* so that no queen attacks a square outside a1..d4.  Black has its king   *)
(* on g4, h4, g5 or h5, none of which is attacked and each of which has a  *)
(* free neighbour, and possibly a pawn on h7 and a queen on h8, neither of *)
(* which attacks a4 or a5: with either side to move nobody is in check,    *)
(* the side to move has a king move and the material is sufficient.  With  *)
(* nine queens and the black king on h5 the position is                    *)
(* 8/8/8/7k/KRRB4/QQQB4/QQQN4/QQQN4.                                        *)
(***************************************************************************)
a4a5 == << "a", "4", "a", "5" >>
g4h3 == << "g", "4", "h", "3" >>
h4h3 == << "h", "4", "h", "3" >>
g5h6 == << "g", "5", "h", "6" >>
h5h6 == << "h", "5", "h", "6" >>

QueenSquares ==
  << Pc("q", "w", 7, 0), Pc("q", "w", 7, 1), Pc("q", "w", 7, 2),
     Pc("q", "w", 6, 0), Pc("q", "w", 6, 1), Pc("q", "w", 6, 2),
     Pc("q", "w", 5, 0), Pc("q", "w", 5, 1), Pc("q", "w", 5, 2) >>

WhiteFence ==
  << Pc("k", "w", 4, 0), Pc("r", "w", 4, 1), Pc("r", "w", 4, 2), Pc("b", "w", 4, 3),
     Pc("b", "w", 5, 3), Pc("n", "w", 6, 3), Pc("n", "w", 7, 3) >>

BlackKings ==
  { [piece |-> Pc("k", "b", 4, 6), step |-> g4h3], [piece |-> Pc("k", "b", 4, 7), step |-> h4h3],
    [piece |-> Pc("k", "b", 3, 6), step |-> g5h6], [piece |-> Pc("k", "b", 3, 7), step |-> h5h6] }

BlackExtras ==
  { << >>, << Pc("p", "b", 1, 7) >>, << Pc("q", "b", 0, 7) >>,
    << Pc("p", "b", 1, 7), Pc("q", "b", 0, 7) >> }

\* the oracle loaded with one of these positions: not in check, no draw rule,
\* and a king move for the side to move (the position it leads to is not
\* looked at)
promotedPosition(nq, bk, extras, turn) ==
  [fen |-> 0, turn |-> turn, check |-> FALSE, rule |-> FALSE,
   board |-> WhiteFence \o SubSeq(QueenSquares, 1, nq) \o << bk.piece >> \o extras,
   mv |-> << Mv(IF turn = "w" THEN a4a5 ELSE bk.step, 0) >>]

PromotedPositions ==
  { promotedPosition(nq, bk, extras, turn) :
      nq \in 0 .. Len(QueenSquares), bk \in BlackKings, extras \in BlackExtras,
      turn \in {"w", "b"} }

\* the positions evaluatePosition is called with directly
EvaluatedPositions == PromotedPositions \cup {Chess(f) : f \in Positions}

\* rank r to rank 9 - r
mirrorRank(c) ==
  RankOrder[9 - (CHOOSE r \in 1 .. 8 : RankOrder[r] = c)]

mirrorSquare(square) == << square[1], mirrorRank(square[2]) >>

otherColor(c) == IF c = "w" THEN "b" ELSE "w"

\* The position mirrored vertically with the colours and the side to move
\* exchanged.  The rules are the same for both colours: the mirrored position
\* has the mirrored moves, is in check exactly when the position is, and is
\* drawn by rule exactly when the position is (the positions its moves lead
\* to are not looked at).
mirror(chess) ==
  [fen |-> 0, turn |-> otherColor(chess.turn), check |-> chess.check, rule |-> chess.rule,
   board |-> [k \in 1 .. Len(chess.board) |->
                Pc(chess.board[k].type, otherColor(chess.board[k].color),
                   7 - chess.board[k].i, chess.board[k].j)],
   mv |-> [k \in 1 .. Len(chess.mv) |->
             [from |-> mirrorSquare(chess.mv[k].from), to |-> mirrorSquare(chess.mv[k].to),
              promotion |-> chess.mv[k].promotion, next |-> 0]]]

\* evaluatePosition(chess) for the position the oracle holds, and for its
\* mirror image
EvaluateBoardCall ==
  /\ probe.op = "none"
  /\ probe' = [probe EXCEPT !.op = "evaluatePosition",
                            !.value = evaluatePosition(probe.chess),
                            !.mirrored = evaluatePosition(mirror(probe.chess))]
  /\ UNCHANGED << useGeminiAPI, callVars, relayRev, allowedOrigins, relayVars, geminiVars,
                  gameVars, chatCall >>

NextEvaluate == EvaluateBoardCall

InitEvaluate ==
  /\ InitCall
  /\ relayRev = "format"
  /\ allowedOrigins = ALLOWED_ORIGINS(Missing)
  /\ InitRelay
  /\ InitGemini
  /\ InitGame
  /\ chatCall = NoChat
  /\ \E chess \in EvaluatedPositions :
       probe = [op |-> "none", chess |-> chess, value |-> 0, mirrored |-> 0]

SpecEvaluate == InitEvaluate /\ [][NextEvaluate]_vars

whiteQueens(board) == Cardinality({k \in 1 .. Len(board) : board[k] = Pc("q", "w", board[k].i, board[k].j)})

\* C35: for every position that is not over, promoted pieces included, the
\* static evaluation is strictly smaller in magnitude than the checkmate
\* score 10000.
C35_StaticBelowMate ==
  (probe.op = "evaluatePosition" /\ ~isGameOver(probe.chess)) =>
    abs(probe.value) < MateScore

\* a position with promoted queens whose evaluation stays below the
\* checkmate score
C35_Witness ==
  /\ probe.op = "evaluatePosition"
  /\ ~isGameOver(probe.chess)
  /\ whiteQueens(boardOf(probe.chess)) > 1
  /\ abs(probe.value) < MateScore

(***************************************************************************)
(* What the relay answers to a request for a move                          *)
(***************************************************************************)
\* the handler has answered a POST whose body asks for a move
moveRequestAnswered ==
  /\ relayPc = "responded"
  /\ event.httpMethod = "POST"
  /\ event.body.requestType = "move"

\* status 200 with success = true
answeredWithSuccess == http.status = 200 /\ http.success

\* the content of the answer comes from the first response when the handler
\* accepted it, and from the single retry otherwise
contentFromFirstOrRetry ==
  IF upstreamCalls = 1
  THEN trim(http.content) = firstText
  ELSE upstreamCalls = 2 /\ http.content = retryText

\* C36: for a request of type move, every answer of the relay with status
\* 200 and success = true carries a content that, once trimmed, is a
\* well-formed move token (4 or 5 characters: two squares and an optional
\* promotion letter), taken from the first response when it is valid and
\* otherwise from the single retry; every other answer has success = false
\* and a status outside 200..299.
C36_SuccessCarriesToken ==
  moveRequestAnswered =>
    IF answeredWithSuccess
    THEN validateMoveFormat(trim(http.content)) /\ contentFromFirstOrRetry
    ELSE ~http.success /\ http.status \notin 200 .. 299

\* the relay answered a request for a move with the text of its retry
C36_Witness ==
  /\ moveRequestAnswered
  /\ answeredWithSuccess
  /\ upstreamCalls = 2
  /\ http.content = retryText

(***************************************************************************)
(* Colour symmetry of the evaluator                                        *)
(***************************************************************************)
\* C37: for every position, the position obtained by mirroring the board
\* vertically (rank r to rank 9 - r), swapping the colour of every piece and
\* swapping the side to move evaluates to the negation of the original
\* score.
C37_ColourSymmetric ==
  probe.op = "evaluatePosition" =>
    /\ probe.mirrored = -probe.value
    /\ evaluatePosition(mirror(mirror(probe.chess))) = probe.value

\* a position that is not over, whose pieces do not stand symmetrically and
\* whose score is not zero
C37_Witness ==
  /\ probe.op = "evaluatePosition"
  /\ ~isGameOver(probe.chess)
  /\ probe.value # 0
  /\ \E k \in 1 .. Len(boardOf(probe.chess)) :
       boardOf(probe.chess)[k].type # "k" /\ boardOf(probe.chess)[k].color = "b"
  /\ probe.mirrored = -probe.value

====
